---- MODULE Spec2Model ----
(***************************************************************************)
(* Building-layout engine of the Vancouver zoning viewer                   *)
(* (src/backend/shape_e_generator_updated.py, class ShapEGenerator).       *)
(*                                                                         *)
(* Lengths are exact rationals in decimetres (0.1 m), areas in square      *)
(* decimetres: 2.4 m is 24, 3.0 m is 30, 25 m2 is 2500.  A rational is a   *)
(* pair <<numerator, denominator>> in lowest terms with a positive         *)
(* denominator, so that the divisions and the square-root scaling of the   *)
(* source are computed, not approximated.  The inputs that reach a square  *)
(* root are drawn so that the root is rational.                            *)
(***************************************************************************)
EXTENDS Integers, Sequences, FiniteSets, TLC

VARIABLES
    ml_in,            \* arguments of one _calculate_multiplex_layout call
    ml_out,           \* <<>> before the call, <<its return value>> after
    el_in,            \* arguments of one eligibility validation call
    el_out,           \* <<>> before the call, <<validation_result>> after
    lot_data,         \* the caller's lot_data dict of generate_building_units
    building_config,  \* the caller's building_config dict (mutable, shared by calls)
    current_lot_data, \* ShapEGenerator._current_lot_data
    files,            \* the unit, coach-house and combined files in the output directory
    result,           \* return values of the generate_building_units calls so far
    trace,            \* per call: building_config at entry, files written, layout locals
    fn_in,            \* arguments of one call of a function of src/backend/app.py or a layout helper
    fn_out,           \* <<>> before that call, <<its return value>> after
    invocations,      \* the generate_building_units calls in progress on the shared generator
    response,         \* the /api/generate-building-units responses so far
    generation_progress, \* the process-wide generation_progress dict of src/backend/app.py
    tasks,            \* per task id: how far its generation handler has come
    streams           \* the generation_progress_stream generators, each with its position

vars == <<ml_in, ml_out, el_in, el_out, lot_data, building_config,
          current_lot_data, files, result, trace, fn_in, fn_out,
          invocations, response, generation_progress, tasks, streams>>

-----------------------------------------------------------------------------
(* Exact rational arithmetic standing for Python float arithmetic.         *)

Abs(x) == IF x < 0 THEN -x ELSE x

RECURSIVE GCD(_, _)
GCD(a, b) == IF b = 0 THEN a ELSE GCD(b, a % b)

Rat(n, d) ==
    LET g == GCD(Abs(n), Abs(d))
        s == IF d < 0 THEN -1 ELSE 1
    IN  <<(s * n) \div g, (s * d) \div g>>

R(n) == <<n, 1>>

RAdd(a, b) == Rat(a[1] * b[2] + b[1] * a[2], a[2] * b[2])
RSub(a, b) == Rat(a[1] * b[2] - b[1] * a[2], a[2] * b[2])
RMul(a, b) == Rat(a[1] * b[1], a[2] * b[2])
RDiv(a, b) == Rat(a[1] * b[2], a[2] * b[1])
RLt(a, b)  == a[1] * b[2] < b[1] * a[2]
RLe(a, b)  == a[1] * b[2] <= b[1] * a[2]
RMin(a, b) == IF RLe(a, b) THEN a ELSE b
RMax(a, b) == IF RLe(a, b) THEN b ELSE a
\* a // b followed by int(): floor of the quotient
RFloorDiv(a, b) == (a[1] * b[2]) \div (a[2] * b[1])

ISqrt(n) == CHOOSE k \in 0..n : k * k <= n /\ n < (k + 1) * (k + 1)
IsSquare(n) == ISqrt(n) * ISqrt(n) = n
HasSqrt(r) == r[1] >= 0 /\ IsSquare(r[1]) /\ IsSquare(r[2])
\* x ** 0.5
RSqrt(r) == <<ISqrt(r[1]), ISqrt(r[2])>>

RECURSIVE SumSeq(_)
SumSeq(s) == IF s = <<>> THEN 0 ELSE Head(s) + SumSeq(Tail(s))

-----------------------------------------------------------------------------
(* _calculate_multiplex_layout                                             *)

between_buildings == 24
min_unit_width == 30

\* The optional setback_boundaries argument: <<>> is None, otherwise a
\* one-element sequence holding the dict's width, depth and area.
physical_dimensions(buildable_width, buildable_depth, setback_boundaries) ==
    IF setback_boundaries # <<>>
    THEN [width |-> setback_boundaries[1].width,
          depth |-> setback_boundaries[1].depth,
          area  |-> setback_boundaries[1].area]
    ELSE [width |-> buildable_width,
          depth |-> buildable_depth,
          area  |-> RMul(buildable_width, buildable_depth)]

\* scale_factor = (max_building_area / max_physical_area) ** 0.5 when the
\* coverage limit is the smaller area, no scaling otherwise
area_scale_factor(max_building_area, max_physical_area) ==
    IF RLt(max_building_area, max_physical_area)
    THEN RSqrt(RDiv(max_building_area, max_physical_area))
    ELSE R(1)

total_separation_width(num_buildings) ==
    IF num_buildings > 1 THEN between_buildings * (num_buildings - 1) ELSE 0

available_width(buildable_width, num_buildings, total_units) ==
    LET a == RSub(buildable_width, R(total_separation_width(num_buildings)))
    IN  IF RLe(a, R(0)) THEN R(total_units * min_unit_width) ELSE a

\* faulty variant of max_viable_units: rounds the quotient up instead of down
max_viable_units_rounded_up(avail) == RFloorDiv(avail, R(min_unit_width)) + 1

\* int(available_width // min_unit_width)
max_viable_units(avail) == RFloorDiv(avail, R(min_unit_width))

\* the building configuration after a reduction to total_units units
reduced_configuration(num_buildings, total_units) ==
    IF num_buildings = 1
    THEN [num_buildings |-> 1, units_per_building |-> <<total_units>>]
    ELSE IF num_buildings = 2 /\ total_units >= 2
    THEN [num_buildings |-> 2,
          units_per_building |->
              <<total_units \div 2, total_units - (total_units \div 2)>>]
    ELSE [num_buildings |-> 1, units_per_building |-> <<total_units>>]

\* faulty variant of validate_unit_width: a too narrow unit width is reported, the
\* requested units are kept
validate_unit_width_keeps_units(avail, num_buildings, units_per_building) ==
    [total_units |-> SumSeq(units_per_building),
     unit_width |-> RDiv(avail, R(SumSeq(units_per_building))),
     num_buildings |-> num_buildings,
     units_per_building |-> units_per_building,
     downgraded |-> RLt(RDiv(avail, R(SumSeq(units_per_building))), R(min_unit_width))]

\* the unit-width validation: the unit count, unit width and configuration
\* the layout is built from
validate_unit_width(avail, num_buildings, units_per_building) ==
    LET total_units == SumSeq(units_per_building)
        unit_width  == RDiv(avail, R(total_units))
        mvu         == max_viable_units(avail)
    IN  IF RLt(unit_width, R(min_unit_width))
        THEN IF mvu > 0
             THEN LET c == reduced_configuration(num_buildings, mvu)
                  IN  [total_units |-> mvu,
                       unit_width |-> RDiv(avail, R(mvu)),
                       num_buildings |-> c.num_buildings,
                       units_per_building |-> c.units_per_building,
                       downgraded |-> TRUE]
             ELSE [total_units |-> 1,
                   unit_width |-> avail,
                   num_buildings |-> 1,
                   units_per_building |-> <<1>>,
                   downgraded |-> TRUE]
        ELSE [total_units |-> total_units,
              unit_width |-> unit_width,
              num_buildings |-> num_buildings,
              units_per_building |-> units_per_building,
              downgraded |-> FALSE]

\* building_width = (available_width / total_units) * units_in_building
building_widths(avail, total_units, units_per_building) ==
    [i \in 1..Len(units_per_building) |->
        RMul(RDiv(avail, R(total_units)), R(units_per_building[i]))]

\* x of building i: the widths and separations of the buildings before it
RECURSIVE building_x(_, _, _)
building_x(widths, min_x, i) ==
    IF i = 1 THEN min_x
    ELSE RAdd(building_x(widths, min_x, i - 1),
              RAdd(widths[i - 1], R(between_buildings)))

multiplex_building_positions(widths, min_x, min_y) ==
    [i \in 1..Len(widths) |-> <<building_x(widths, min_x, i), min_y>>]

\* the units of buildings b..last, left to right inside each building
RECURSIVE multiplex_unit_positions(_, _, _, _)
multiplex_unit_positions(positions, units_per_building, unit_width, b) ==
    IF b > Len(units_per_building) THEN <<>>
    ELSE [u \in 1..units_per_building[b] |->
              <<RAdd(positions[b][1], RMul(R(u - 1), unit_width)),
                positions[b][2]>>]
         \o multiplex_unit_positions(positions, units_per_building,
                                     unit_width, b + 1)

calculate_multiplex_layout(buildable_width, buildable_depth, building_configuration, max_building_area, setback_boundaries, buildable_min_x, buildable_min_y) ==
    LET phys   == physical_dimensions(buildable_width, buildable_depth,
                                      setback_boundaries)
        scale  == area_scale_factor(max_building_area, phys.area)
        width  == RMul(phys.width, scale)
        depth  == RMul(phys.depth, scale)
        nb     == building_configuration.num_buildings
        upb    == building_configuration.units_per_building
        avail  == available_width(width, nb, SumSeq(upb))
        v      == validate_unit_width(avail, nb, upb)
        widths == building_widths(avail, v.total_units, v.units_per_building)
        bpos   == multiplex_building_positions(widths, buildable_min_x,
                                               buildable_min_y)
    IN  [unit_width |-> v.unit_width,
         unit_depth |-> depth,
         unit_positions |->
             multiplex_unit_positions(bpos, v.units_per_building,
                                      v.unit_width, 1),
         building_positions |-> bpos,
         building_configuration |->
             [num_buildings |-> v.num_buildings,
              units_per_building |-> v.units_per_building,
              layout_type |-> building_configuration.layout_type],
         \* locals of the call, kept for the properties below
         max_physical_area |-> phys.area,
         effective_building_area |-> RMin(phys.area, max_building_area),
         buildable_width |-> width,
         total_separation_width |-> total_separation_width(nb),
         available_width |-> avail,
         configuration_downgraded |-> v.downgraded]

-----------------------------------------------------------------------------
(* _validate_coach_house_eligibility, _validate_accessory_building_eligibility *)

\* minimum site area (dm2) for the main units, keyed by unit count
min_site_area_for_units ==
    [n \in 2..8 |-> CASE n = 2 -> 0
                      [] n \in {3, 4} -> 30600
                      [] n = 5 -> 46400
                      [] OTHER -> 55700]

min_site_area_for_coach_house == 40000
min_site_area_for_other_accessory == 30000
min_lot_depth_for_coach_house == 350
min_lot_depth_for_other_accessory == 250
default_front_setback == 49
default_rear_setback == 107
coach_house_depth == 85
other_accessory_depth == 60
estimated_coach_house_area == 8000
estimated_other_accessory_area == 4000

new_validation_result == [eligible |-> TRUE, reasons |-> <<>>, warnings |-> <<>>]

\* faulty variant of hard_check: only the first failing check is reported
hard_check_first_only(validation_result, failing, reason) ==
    IF failing /\ validation_result.eligible
    THEN [validation_result EXCEPT !.eligible = FALSE,
                                   !.reasons = Append(@, reason)]
    ELSE validation_result

\* a failing hard check clears eligible and appends its reason
hard_check(validation_result, failing, reason) ==
    IF failing
    THEN [validation_result EXCEPT !.eligible = FALSE,
                                   !.reasons = Append(@, reason)]
    ELSE validation_result

\* a failing soft check appends a warning
soft_check(validation_result, failing, warning) ==
    IF failing
    THEN [validation_result EXCEPT !.warnings = Append(@, warning)]
    ELSE validation_result

\* checks 1-6 shared by both validators, with the accessory-specific numbers
eligibility_checks(site_area, lot_depth, selected_units, min_area, min_depth, required_separation, accessory_depth, estimated_area) ==
    LET buildable_depth == lot_depth - default_front_setback - default_rear_setback
        main_building_area == RMul(R(site_area), <<1, 2>>)
        total_building_area == RAdd(main_building_area, R(estimated_area))
        max_allowed_area == RMul(R(site_area), <<1, 2>>)
        total_far == RAdd(<<1, 2>>, RDiv(R(estimated_area), R(site_area)))
        r1 == hard_check(new_validation_result,
                  /\ selected_units \in DOMAIN min_site_area_for_units
                  /\ site_area < min_site_area_for_units[selected_units],
                  [check |-> "units_site_area",
                   required |-> IF selected_units \in DOMAIN min_site_area_for_units
                                THEN min_site_area_for_units[selected_units]
                                ELSE 0])
        r2 == hard_check(r1, site_area < min_area,
                  [check |-> "accessory_site_area", required |-> min_area])
        r3 == hard_check(r2, lot_depth < min_depth,
                  [check |-> "lot_depth", required |-> min_depth])
        r4 == hard_check(r3, buildable_depth < required_separation + accessory_depth,
                  [check |-> "separation_depth",
                   required |-> required_separation + accessory_depth])
        r5 == soft_check(r4, RLt(max_allowed_area, total_building_area), "coverage")
        r6 == soft_check(r5, RLt(<<7, 10>>, total_far), "far")
    IN  r6

coach_house_required_separation(position) ==
    IF position = "rear" THEN 61 ELSE 24

validate_coach_house_eligibility(site_area, lot_depth, selected_units, config) ==
    IF ~config.include_coach_house THEN new_validation_result
    ELSE eligibility_checks(site_area, lot_depth, selected_units,
             min_site_area_for_coach_house, min_lot_depth_for_coach_house,
             coach_house_required_separation(config.coach_house_position),
             coach_house_depth, estimated_coach_house_area)

accessory_required_separation(type, position) ==
    IF type = "coach_house"
    THEN (IF position = "rear" THEN 61 ELSE 24)
    ELSE (IF position = "rear" THEN 30 ELSE 12)

validate_accessory_building_eligibility(site_area, lot_depth, selected_units, config) ==
    LET type  == config.accessory_building_type
        coach == type = "coach_house"
    IN  IF ~config.include_accessory_building THEN new_validation_result
        ELSE eligibility_checks(site_area, lot_depth, selected_units,
                 IF coach THEN min_site_area_for_coach_house
                          ELSE min_site_area_for_other_accessory,
                 IF coach THEN min_lot_depth_for_coach_house
                          ELSE min_lot_depth_for_other_accessory,
                 accessory_required_separation(type,
                                               config.accessory_building_position),
                 IF coach THEN coach_house_depth ELSE other_accessory_depth,
                 IF coach THEN estimated_coach_house_area
                          ELSE estimated_other_accessory_area)

-----------------------------------------------------------------------------
(* generate_building_units: the validations before the layout step         *)

min_unit_size_sqm == 3500
courtyard_min_units == 4
courtyard_max_units == 6
max_units_per_building == 8

SeqMax(s) == CHOOSE x \in {s[i] : i \in 1..Len(s)} :
                 \A j \in 1..Len(s) : s[j] <= x

invalid(error, max_possible_units) ==
    [valid |-> FALSE, error |-> error, max_possible_units |-> max_possible_units]

\* zoning_configuration is zoning_data['multiple_dwelling']
\* ['building_configuration']: <<>> when the request carries none
validate_unit_size_requirements(site_area, selected_units, config, zoning_configuration) ==
    LET available_building_area == RMul(R(site_area), config.coverage)
        max_possible == <<RFloorDiv(available_building_area, R(min_unit_size_sqm))>>
    IN  IF zoning_configuration # <<>>
        THEN LET c == zoning_configuration[1]
                 total_units == SumSeq(c.units_per_building)
                 max_allowed_per_building ==
                     IF c.layout_type = "multiplex" THEN 8 ELSE 3
             IN  IF RLt(available_building_area, R(total_units * min_unit_size_sqm))
                 THEN invalid("insufficient_building_area", max_possible)
                 ELSE IF SeqMax(c.units_per_building) > max_allowed_per_building
                 THEN invalid("too_many_units_per_building", <<>>)
                 ELSE [valid |-> TRUE, error |-> "", max_possible_units |-> <<>>]
        ELSE IF RLt(available_building_area, R(selected_units * min_unit_size_sqm))
             THEN invalid("insufficient_building_area", max_possible)
             ELSE IF /\ config.building_layout = "courtyard"
                     /\ selected_units < courtyard_min_units
             THEN invalid("courtyard_requires_minimum_units", <<>>)
             ELSE IF /\ config.building_layout = "courtyard"
                     /\ selected_units > courtyard_max_units
             THEN invalid("courtyard_supports_maximum_units", <<>>)
             ELSE LET optimal_building_count ==
                          IF config.building_layout = "courtyard" THEN 2 ELSE 1
                  IN  \* selected_units / optimal_building_count > max_units_per_building;
                      \* the error dict then reads an unbound name and the
                      \* handler returns its own error
                      IF selected_units > max_units_per_building * optimal_building_count
                      THEN invalid("error_validating_unit_size_requirements", <<>>)
                      ELSE [valid |-> TRUE, error |-> "", max_possible_units |-> <<>>]

calculate_optimal_courtyard_layout(site_area, selected_units, config) ==
    LET available_building_area == RMul(R(site_area), config.coverage)
        front_units == IF selected_units = 4 THEN 2
                       ELSE IF selected_units \in {5, 6} THEN 3
                       ELSE selected_units \div 2
        rear_units == IF selected_units = 4 THEN 2
                      ELSE IF selected_units = 5 THEN 2
                      ELSE IF selected_units = 6 THEN 3
                      ELSE selected_units - (selected_units \div 2)
        front_building_area == RMul(available_building_area, <<55, 100>>)
        rear_building_area == RMul(available_building_area, <<45, 100>>)
    IN  IF front_units = 0 \/ rear_units = 0
        THEN \* division by zero, caught by the handler
             [valid |-> FALSE, error |-> "error_calculating_courtyard_layout",
              front_units |-> front_units, rear_units |-> rear_units]
        ELSE IF \/ RLt(RDiv(front_building_area, R(front_units)), R(min_unit_size_sqm))
                \/ RLt(RDiv(rear_building_area, R(rear_units)), R(min_unit_size_sqm))
        THEN [valid |-> FALSE, error |-> "unit_sizes_too_small",
              front_units |-> front_units, rear_units |-> rear_units]
        ELSE [valid |-> TRUE, error |-> "",
              front_units |-> front_units, rear_units |-> rear_units]

\* the caller's building_config dict after the coach-house validation
config_after_coach_house_validation(config, validation) ==
    LET c == IF ~validation.eligible
             THEN [config EXCEPT !.include_coach_house = FALSE,
                                 !.coach_house_warnings = <<validation.reasons>>]
             ELSE config
    IN  IF validation.warnings # <<>>
        THEN [c EXCEPT !.coach_house_warnings = <<validation.warnings>>]
        ELSE c

-----------------------------------------------------------------------------
(* _create_building_units_from_geometry: geometry, setbacks, buildable area *)

\* metres per degree of longitude and latitude, here in decimetres
lon_to_m == 850000
lat_to_m == 1110000
min_viable_area == 2500
min_courtyard_depth == 335

RMinOf(s) == CHOOSE x \in {s[i] : i \in 1..Len(s)} :
                 \A j \in 1..Len(s) : RLe(x, s[j])
RMaxOf(s) == CHOOSE x \in {s[i] : i \in 1..Len(s)} :
                 \A j \in 1..Len(s) : RLe(s[j], x)

\* the exterior ring as local vertices: the origin is the smallest longitude
\* and latitude, the closing point of the ring is skipped
process_parcel_geometry(geometry) ==
    LET coordinates == geometry.coordinates[1]
        min_lon == RMinOf([i \in 1..Len(coordinates) |-> coordinates[i][1]])
        min_lat == RMinOf([i \in 1..Len(coordinates) |-> coordinates[i][2]])
    IN  [i \in 1..(Len(coordinates) - 1) |->
            <<RMul(RSub(coordinates[i][1], min_lon), R(lon_to_m)),
              RMul(RSub(coordinates[i][2], min_lat), R(lat_to_m))>>]

bounding_box(vertices) ==
    [min_x |-> RMinOf([i \in 1..Len(vertices) |-> vertices[i][1]]),
     max_x |-> RMaxOf([i \in 1..Len(vertices) |-> vertices[i][1]]),
     min_y |-> RMinOf([i \in 1..Len(vertices) |-> vertices[i][2]]),
     max_y |-> RMaxOf([i \in 1..Len(vertices) |-> vertices[i][2]])]

\* faulty variant of capped_setbacks: the requested setbacks are used as they are
uncapped_setbacks(setbacks, lot_width, lot_depth) ==
    [front |-> R(setbacks.front), side |-> R(setbacks.side),
     rear |-> R(setbacks.rear)]

\* front + rear is scaled down to half the lot depth, the side setback is cut
\* to a quarter of the lot width
capped_setbacks(setbacks, lot_width, lot_depth) ==
    LET max_front_rear == RMul(lot_depth, <<1, 2>>)
        max_side == RMul(lot_width, <<1, 2>>)
        total_setback == R(setbacks.front + setbacks.rear)
        over == RLt(max_front_rear, total_setback)
    IN  [front |-> IF over
                   THEN RMul(RDiv(R(setbacks.front), total_setback), max_front_rear)
                   ELSE R(setbacks.front),
         rear |-> IF over
                  THEN RMul(RDiv(R(setbacks.rear), total_setback), max_front_rear)
                  ELSE R(setbacks.rear),
         side |-> IF RLt(max_side, R(2 * setbacks.side))
                  THEN RDiv(max_side, R(2))
                  ELSE R(setbacks.side)]

\* the bounding box of the parcel, inset by the setbacks
calculate_inset_vertices(vertices, front_setback, side_setback, rear_setback) ==
    LET b == bounding_box(vertices)
    IN  << <<RAdd(b.min_x, side_setback), RAdd(b.min_y, front_setback)>>,
           <<RSub(b.max_x, side_setback), RAdd(b.min_y, front_setback)>>,
           <<RSub(b.max_x, side_setback), RSub(b.max_y, rear_setback)>>,
           <<RAdd(b.min_x, side_setback), RSub(b.max_y, rear_setback)>> >>

default_side_setback == 12
min_inset_area == 1000

\* setbacks.get(key, default): an absent key is <<>>
setback_or_default(value, default) == IF value = <<>> THEN R(default) ELSE R(value[1])

\* min(front_setback, side_setback, rear_setback)
min_setback(setbacks) ==
    RMin(setback_or_default(setbacks.front, default_front_setback),
         RMin(setback_or_default(setbacks.side, default_side_setback),
              setback_or_default(setbacks.rear, default_rear_setback)))

empty_polygon == [is_empty |-> TRUE]

\* Polygon(coords) of the ring of an axis-aligned rectangle
Polygon(coords) ==
    [is_empty |-> FALSE, min_x |-> bounding_box(coords).min_x, max_x |-> bounding_box(coords).max_x,
     min_y |-> bounding_box(coords).min_y, max_y |-> bounding_box(coords).max_y]

\* polygon.buffer(-distance) of an axis-aligned rectangle: every side moves
\* inward by the distance, and nothing is left once two sides meet
buffer_inward(polygon, distance) ==
    IF polygon.is_empty THEN empty_polygon
    ELSE IF \/ RLe(RSub(polygon.max_x, polygon.min_x), RMul(R(2), distance))
            \/ RLe(RSub(polygon.max_y, polygon.min_y), RMul(R(2), distance))
    THEN empty_polygon
    ELSE [is_empty |-> FALSE,
          min_x |-> RAdd(polygon.min_x, distance), max_x |-> RSub(polygon.max_x, distance),
          min_y |-> RAdd(polygon.min_y, distance), max_y |-> RSub(polygon.max_y, distance)]

polygon_area(polygon) ==
    IF polygon.is_empty THEN R(0)
    ELSE RMul(RSub(polygon.max_x, polygon.min_x), RSub(polygon.max_y, polygon.min_y))

\* a setback test that relaxes only for an empty polygon
setbacks_too_large_when_empty(polygon) == polygon.is_empty

\* buildable_polygon.is_empty or buildable_polygon.area < 10
setbacks_too_large(polygon) ==
    polygon.is_empty \/ RLt(polygon_area(polygon), R(min_inset_area))

\* the buffers taken, in order: the minimum setback, then half of it when the
\* first buildable polygon is empty or too small
buffered_polygons(parcel_polygon, distance) ==
    IF setbacks_too_large(buffer_inward(parcel_polygon, distance))
    THEN << [distance |-> distance, polygon |-> buffer_inward(parcel_polygon, distance)],
            [distance |-> RMul(distance, <<1, 2>>),
             polygon |-> buffer_inward(parcel_polygon, RMul(distance, <<1, 2>>))] >>
    ELSE << [distance |-> distance, polygon |-> buffer_inward(parcel_polygon, distance)] >>

\* the returned dict; max() of the empty exterior of an empty polygon raises
\* ValueError, which the handler turns into None
buildable_boundaries(polygon) ==
    IF polygon.is_empty THEN <<>>
    ELSE <<[coordinates |-> {<<polygon.min_x, polygon.min_y>>, <<polygon.max_x, polygon.min_y>>,
                             <<polygon.max_x, polygon.max_y>>, <<polygon.min_x, polygon.max_y>>},
            width |-> RSub(polygon.max_x, polygon.min_x),
            depth |-> RSub(polygon.max_y, polygon.min_y),
            area |-> polygon_area(polygon),
            min_x |-> polygon.min_x, max_x |-> polygon.max_x,
            min_y |-> polygon.min_y, max_y |-> polygon.max_y]>>

\* a dict geometry has no coords, no exterior and is no list: the precise
\* boundaries are None; so are those of a list too short for a Polygon
calculate_setback_boundaries(geometry, setbacks) ==
    IF geometry.python_type # "list" THEN <<>>
    ELSE IF Len(geometry.coords) < 3 THEN <<>>
    ELSE buildable_boundaries(
             buffered_polygons(Polygon(geometry.coords), min_setback(setbacks))[
                 Len(buffered_polygons(Polygon(geometry.coords), min_setback(setbacks)))].polygon)

\* the parcel_geometry dict of the request, as handed on by the pipeline
dict_geometry == [python_type |-> "dict"]

\* lot_width and lot_depth: site_data's lot_characteristics, else the bounding
\* box; rescaled to the site area when lot_width * lot_depth is off by over 20%
lot_dimensions(site_data, vertices, site_area) ==
    LET lc == site_data.lot_characteristics
        b == bounding_box(vertices)
        w == IF lc # <<>> THEN R(lc[1].lot_width) ELSE RSub(b.max_x, b.min_x)
        d == IF lc # <<>> THEN R(lc[1].lot_depth) ELSE RSub(b.max_y, b.min_y)
        calculated_area == RMul(w, d)
        area_ratio == RDiv(calculated_area, R(site_area))
        adjusted == RLt(area_ratio, <<8, 10>>) \/ RLt(<<12, 10>>, area_ratio)
        scale_factor == IF adjusted
                        THEN RSqrt(RDiv(R(site_area), calculated_area))
                        ELSE R(1)
    IN  [lot_width |-> RMul(w, scale_factor),
         lot_depth |-> RMul(d, scale_factor),
         adjusted |-> adjusted]

\* min(physical area, 50% of the site area), raised to the minimum viable area
final_building_area(physical_buildable_area, site_area) ==
    LET max_allowed_building_area == RMul(R(site_area), <<1, 2>>)
        a == RMin(physical_buildable_area, max_allowed_building_area)
    IN  IF RLt(a, R(min_viable_area)) THEN R(min_viable_area) ELSE a

default_building_configuration ==
    [num_buildings |-> 1, units_per_building |-> <<1>>, layout_type |-> "multiplex"]

\* the building configuration of the request, else the legacy single building
\* of selected_units units; the local selected_units stays 1 in the first case
extract_building_configuration(multiple_dwelling) ==
    IF multiple_dwelling.building_configuration # <<>>
    THEN [building_configuration |-> multiple_dwelling.building_configuration[1],
          selected_units |-> 1]
    ELSE [building_configuration |->
              [default_building_configuration EXCEPT
                  !.units_per_building = <<multiple_dwelling.selected_units>>],
          selected_units |-> multiple_dwelling.selected_units]

\* the separate layout of one building: the dimensions scaled to the area
\* limit, the unit count reduced to what fits at 3.0 m per unit
separate_single_building_layout(buildable_width, buildable_depth, total_units, final_area, buildable_min_x, buildable_min_y) ==
    LET max_physical_area == RMul(buildable_width, buildable_depth)
        scale == area_scale_factor(final_area, max_physical_area)
        width == RMul(buildable_width, scale)
        depth == RMul(buildable_depth, scale)
        violation == RLt(RDiv(width, R(total_units)), R(min_unit_width))
        mvu == max_viable_units(width)
        units == IF violation THEN (IF mvu > 0 THEN mvu ELSE 1) ELSE total_units
        unit_width == RDiv(width, R(units))
    IN  [unit_width |-> unit_width,
         unit_depth |-> depth,
         total_units |-> units,
         unit_positions |->
             [i \in 1..units |->
                 <<RAdd(buildable_min_x, RMul(R(i - 1), unit_width)), buildable_min_y>>],
         building_positions |-> << <<buildable_min_x, buildable_min_y>> >>,
         buildable_width |-> width,
         buildable_depth |-> depth,
         configuration_downgraded |-> violation]

\* width, depth and position of the coach house in the buildable area
calculate_coach_house_position(buildable_width, buildable_depth, position, buildable_min_x, buildable_min_y, buildable_max_x, buildable_max_y) ==
    LET coach_width == RMul(buildable_width, <<4, 10>>)
        coach_depth == RMul(buildable_depth, <<5, 10>>)
    IN  IF position = "side"
        THEN [width |-> coach_width, depth |-> coach_depth,
              x |-> RSub(buildable_max_x, coach_width),
              z |-> RAdd(buildable_min_y,
                         RDiv(RSub(buildable_depth, coach_depth), R(2)))]
        ELSE IF position = "corner"
        THEN [width |-> coach_width, depth |-> coach_depth,
              x |-> RSub(buildable_max_x, coach_width),
              z |-> RSub(buildable_max_y, coach_depth)]
        ELSE [width |-> coach_width, depth |-> coach_depth,
              x |-> RAdd(buildable_min_x,
                         RDiv(RSub(buildable_width, coach_width), R(2))),
              z |-> RSub(buildable_max_y, coach_depth)]

-----------------------------------------------------------------------------
(* _create_building_units_from_geometry: the files written                 *)

\* _create_single_unit_file: the header divides the site area by the unit
\* area; the division by zero is caught inside and leaves the file cut short
create_single_unit_file(unit_number, unit_width, unit_depth, x_offset, z_offset) ==
    [unit_number |-> unit_number, unit_width |-> unit_width,
     unit_depth |-> unit_depth, x |-> x_offset, z |-> z_offset,
     complete |-> RMul(unit_width, unit_depth) # R(0)]

no_files == [unit_files |-> <<>>, coach_house_file |-> <<>>, combined_file |-> <<>>]

\* the combined file when the writer stops after the header lines
header_only_file ==
    [complete |-> FALSE, layout_type |-> "", building_layout |-> "",
     units_per_building |-> <<>>, unit_width |-> R(0), unit_depth |-> R(0),
     coach_house |-> <<>>]

\* _create_building_units_obj, the path without a parcel geometry: the combined
\* file is opened and its header written, then selected_units is read before
\* its assignment
create_building_units_obj ==
    [raised |-> TRUE, error |-> "UnboundLocalError",
     wrote |-> [no_files EXCEPT !.combined_file = <<header_only_file>>],
     locals |-> <<>>]

\* the layout as the caller holds it after _calculate_multiplex_layout: the
\* caller's buildable_width and buildable_depth are not scaled
multiplex_layout(m, buildable_width, buildable_depth) ==
    [unit_width |-> m.unit_width,
     unit_depth |-> m.unit_depth,
     main_units |-> SumSeq(m.building_configuration.units_per_building),
     unit_positions |-> m.unit_positions,
     building_positions |-> m.building_positions,
     building_configuration |-> m.building_configuration,
     buildable_width |-> buildable_width,
     buildable_depth |-> buildable_depth,
     available_width |-> m.available_width,
     unit_width_violation |-> m.configuration_downgraded]

\* the layout after the separate branch: the caller's buildable_width and
\* buildable_depth are scaled, building_configuration is left as requested
separate_layout(sp, requested) ==
    [unit_width |-> sp.unit_width,
     unit_depth |-> sp.unit_depth,
     main_units |-> sp.total_units,
     unit_positions |-> sp.unit_positions,
     building_positions |-> sp.building_positions,
     building_configuration |-> requested,
     buildable_width |-> sp.buildable_width,
     buildable_depth |-> sp.buildable_depth,
     available_width |-> sp.buildable_width,
     unit_width_violation |-> sp.configuration_downgraded]

\* the unit files, the coach house file and the combined file
write_unit_files(inset, s, lot, buildable_width, buildable_depth, final_area, requested, config, layout_type, building_layout, is_courtyard_config, layout) ==
    LET include_coach_house == config.include_coach_house
        coach == calculate_coach_house_position(
                     layout.buildable_width, layout.buildable_depth,
                     config.coach_house_position,
                     inset.min_x, inset.min_y, inset.max_x, inset.max_y)
        unit_files == [i \in 1..layout.main_units |->
                          create_single_unit_file(i, layout.unit_width,
                              layout.unit_depth, layout.unit_positions[i][1],
                              layout.unit_positions[i][2])]
        locals == [lot_width |-> lot.lot_width, lot_depth |-> lot.lot_depth,
                   front_setback |-> s.front, side_setback |-> s.side,
                   rear_setback |-> s.rear,
                   buildable_width |-> buildable_width,
                   buildable_depth |-> buildable_depth,
                   buildable_min_x |-> inset.min_x, buildable_max_x |-> inset.max_x,
                   buildable_min_y |-> inset.min_y, buildable_max_y |-> inset.max_y,
                   physical_buildable_area |-> RMul(buildable_width, buildable_depth),
                   final_building_area |-> final_area,
                   layout_type |-> layout_type,
                   building_layout |-> building_layout,
                   is_courtyard_config |-> is_courtyard_config,
                   include_coach_house |-> include_coach_house,
                   requested_configuration |-> requested,
                   building_configuration |-> layout.building_configuration,
                   main_units |-> layout.main_units,
                   unit_width |-> layout.unit_width,
                   unit_depth |-> layout.unit_depth,
                   unit_positions |-> layout.unit_positions,
                   building_positions |-> layout.building_positions,
                   available_width |-> layout.available_width,
                   unit_width_violation |-> layout.unit_width_violation]
    IN  \* the separate loop runs over total_units + 1 positions when the coach
        \* house is included and indexes past the end of unit_positions
        IF layout_type # "multiplex" /\ include_coach_house
        THEN [raised |-> TRUE, error |-> "IndexError",
              wrote |-> [no_files EXCEPT !.unit_files = unit_files],
              locals |-> <<locals>>]
        ELSE [raised |-> FALSE, error |-> "",
              wrote |-> [unit_files |-> unit_files,
                         coach_house_file |->
                             IF include_coach_house
                             THEN <<create_single_unit_file(0, coach.width,
                                        coach.depth, coach.x, coach.z)>>
                             ELSE <<>>,
                         combined_file |->
                             <<[complete |-> TRUE,
                                layout_type |-> layout_type,
                                building_layout |-> building_layout,
                                units_per_building |->
                                    layout.building_configuration.units_per_building,
                                unit_width |-> layout.unit_width,
                                unit_depth |-> layout.unit_depth,
                                coach_house |-> IF include_coach_house
                                                THEN <<coach>> ELSE <<>>]>>],
              locals |-> <<locals>>]

\* the multiplex or the separate layout of the requested configuration
calculate_layout(inset, s, lot, buildable_width, buildable_depth, final_area, requested, config, layout_type, building_layout, is_courtyard_config) ==
    write_unit_files(inset, s, lot, buildable_width, buildable_depth, final_area,
        requested, config, layout_type, building_layout, is_courtyard_config,
        IF layout_type = "multiplex"
        THEN multiplex_layout(
                 calculate_multiplex_layout(buildable_width, buildable_depth,
                     requested, final_area, calculate_setback_boundaries(dict_geometry, s),
                     inset.min_x, inset.min_y),
                 buildable_width, buildable_depth)
        ELSE separate_layout(
                 separate_single_building_layout(buildable_width, buildable_depth,
                     SumSeq(requested.units_per_building), final_area,
                     inset.min_x, inset.min_y),
                 requested))

\* layout_type is forced to multiplex for more than one building; a courtyard
\* request the lot does not support falls back to standard_row
\* a layout type taken from the request as it is
requested_layout_type(building_configuration) == building_configuration.layout_type

\* layout_type is forced to 'multiplex' for more than one building
forced_layout_type(building_configuration) ==
    IF building_configuration.num_buildings > 1 THEN "multiplex"
    ELSE building_configuration.layout_type

\* building_layout == 'courtyard' and selected_units >= 4 and lot_depth >= 33.5
courtyard_configuration(building_layout, selected_units, lot_depth) ==
    /\ building_layout = "courtyard"
    /\ selected_units >= 4
    /\ RLe(R(min_courtyard_depth), lot_depth)

\* the branch of the layout step that computes the unit positions: the
\* multiplex planner, the single building or the two buildings of the
\* separate layout, or, for any other building count, the courtyard, the
\* L-shaped, the U-shaped or the standard row layout
layout_branch(building_configuration, building_layout, selected_units, lot_depth) ==
    IF forced_layout_type(building_configuration) = "multiplex" THEN "multiplex"
    ELSE IF building_configuration.num_buildings = 1 THEN "single_building"
    ELSE IF building_configuration.num_buildings = 2 THEN "two_buildings"
    ELSE IF courtyard_configuration(building_layout, selected_units, lot_depth) THEN "courtyard"
    ELSE IF building_layout = "l_shaped" THEN "l_shaped"
    ELSE IF building_layout = "u_shaped" THEN "u_shaped"
    ELSE "standard_row"

\* building_configuration['num_buildings'] raises KeyError when the request's
\* configuration has no building count
select_layout(inset, s, lot, buildable_width, buildable_depth, site_area, extracted, config) ==
    IF "num_buildings" \notin DOMAIN extracted.building_configuration
    THEN [raised |-> TRUE, error |-> "KeyError", wrote |-> no_files, locals |-> <<>>]
    ELSE
    LET is_courtyard_config ==
            courtyard_configuration(config.building_layout, extracted.selected_units, lot.lot_depth)
    IN  calculate_layout(inset, s, lot, buildable_width, buildable_depth,
            final_building_area(RMul(buildable_width, buildable_depth), site_area),
            extracted.building_configuration, config,
            forced_layout_type(extracted.building_configuration),
            IF config.building_layout = "courtyard" /\ ~is_courtyard_config
            THEN "standard_row" ELSE config.building_layout,
            is_courtyard_config)

\* the buildable area: setback_boundaries is None, so the lot dimensions less
\* the capped setbacks, not below zero
constrain_building_area(inset, s, lot, site_area, multiple_dwelling, config) ==
    select_layout(inset, s, lot,
        RMax(R(0), RSub(lot.lot_width, RMul(R(2), s.side))),
        RMax(R(0), RSub(RSub(lot.lot_depth, s.front), s.rear)),
        site_area, extract_building_configuration(multiple_dwelling), config)

\* the setbacks capped on the parcel's bounding box and the inset bounds
inset_parcel(vertices, s, site_area, multiple_dwelling, config, site_data) ==
    constrain_building_area(
        bounding_box(calculate_inset_vertices(vertices, s.front, s.side, s.rear)),
        s, lot_dimensions(site_data, vertices, site_area),
        site_area, multiple_dwelling, config)

bounded_parcel(vertices, box, site_area, setbacks, multiple_dwelling, config, site_data) ==
    inset_parcel(vertices,
        capped_setbacks(setbacks, RSub(box.max_x, box.min_x),
                        RSub(box.max_y, box.min_y)),
        site_area, multiple_dwelling, config, site_data)

processed_parcel(vertices, site_area, setbacks, multiple_dwelling, config, site_data) ==
    bounded_parcel(vertices, bounding_box(vertices), site_area, setbacks,
                   multiple_dwelling, config, site_data)

\* whether _process_parcel_geometry returns vertices: a Polygon with
\* coordinates whose first ring has more than its closing point
geometry_is_processed(geometry) ==
    /\ geometry.type = "Polygon"
    /\ geometry.coordinates # <<>>
    /\ Len(geometry.coordinates[1]) >= 2

create_building_units_from_geometry(geometry, site_area, setbacks, multiple_dwelling, config, site_data) ==
    IF ~geometry_is_processed(geometry) THEN create_building_units_obj
    ELSE processed_parcel(process_parcel_geometry(geometry), site_area, setbacks,
                          multiple_dwelling, config, site_data)

-----------------------------------------------------------------------------
(* generate_building_units                                                 *)

\* the returned dict; an absent key is <<>> (error: "")
validation_failure(error, unit_validation, courtyard_layout) ==
    [success |-> <<FALSE>>, error |-> error,
     unit_validation |-> unit_validation,
     courtyard_layout |-> courtyard_layout,
     coach_house_validation |-> <<>>,
     used_actual_geometry |-> <<>>]

\* one call on the request lot_data whose building_config dict holds config:
\* the returned dict, the dict's content afterwards, the files written, the
\* locals of the layout step and whether _current_lot_data was stored
generate_building_units(request, config) ==
    LET site_area == request.site_area
        selected_units == request.multiple_dwelling.selected_units
        unit_validation ==
            validate_unit_size_requirements(site_area, selected_units, config,
                request.zoning_data.multiple_dwelling.building_configuration)
        courtyard_layout ==
            IF config.building_layout = "courtyard"
            THEN <<calculate_optimal_courtyard_layout(site_area, selected_units, config)>>
            ELSE <<>>
        coach_house_validation ==
            validate_coach_house_eligibility(site_area, request.lot_depth,
                                             selected_units, config)
        validated == config_after_coach_house_validation(config, coach_house_validation)
        parcel_geometry == request.site_data.parcel_geometry
        layout == IF parcel_geometry # <<>>
                  THEN create_building_units_from_geometry(parcel_geometry[1],
                           site_area, request.setbacks, request.multiple_dwelling,
                           validated, request.site_data)
                  ELSE create_building_units_obj
    IN  IF ~unit_validation.valid
        THEN [ret |-> validation_failure(unit_validation.error, <<unit_validation>>, <<>>),
              building_config |-> config, wrote |-> no_files,
              locals |-> <<>>, stored |-> FALSE]
        ELSE IF courtyard_layout # <<>> /\ ~courtyard_layout[1].valid
        THEN [ret |-> validation_failure(courtyard_layout[1].error, <<>>, courtyard_layout),
              building_config |-> config, wrote |-> no_files,
              locals |-> <<>>, stored |-> FALSE]
        ELSE [ret |-> IF layout.raised
                      THEN [success |-> <<>>, error |-> layout.error,
                            unit_validation |-> <<>>, courtyard_layout |-> <<>>,
                            coach_house_validation |-> <<>>,
                            used_actual_geometry |-> <<>>]
                      ELSE [success |-> <<TRUE>>, error |-> "",
                            unit_validation |-> <<unit_validation>>,
                            courtyard_layout |-> courtyard_layout,
                            coach_house_validation |-> <<coach_house_validation>>,
                            used_actual_geometry |-> <<parcel_geometry # <<>> >>],
              building_config |-> validated, wrote |-> layout.wrote,
              locals |-> layout.locals, stored |-> TRUE]

\* the files on disk after a call: a file written again is replaced, a file
\* not written again stays
files_after(old, wrote) ==
    [unit_files |->
         [i \in 1..(IF Len(old.unit_files) > Len(wrote.unit_files)
                    THEN Len(old.unit_files) ELSE Len(wrote.unit_files)) |->
             IF i <= Len(wrote.unit_files) THEN wrote.unit_files[i]
             ELSE old.unit_files[i]],
     coach_house_file |-> IF wrote.coach_house_file # <<>>
                          THEN wrote.coach_house_file ELSE old.coach_house_file,
     combined_file |-> IF wrote.combined_file # <<>>
                       THEN wrote.combined_file ELSE old.combined_file]

-----------------------------------------------------------------------------
(* Input domains of the two pure-function specifications                    *)

MaxBuildings == 3
MaxUnitsPerBuilding == 4

UnitCounts == (1..MaxUnitsPerBuilding) \cup {8}
BuildableWidths == {20, 24, 29, 65, 126, 200}
BuildableDepths == {165, 200}
\* max_building_area as a multiple of the physical area; below 1 the
\* coverage limit binds and the square root of the ratio is rational
AreaRatios == {<<1, 4>>, <<4, 9>>, <<1, 1>>, <<2, 1>>}
SetbackBoundaryChoices ==
    {<<>>, <<[width |-> R(100), depth |-> R(150), area |-> R(14400)]>>}

IdlePipeline ==
    /\ lot_data = <<>>
    /\ building_config = <<>>
    /\ current_lot_data = <<>>
    /\ files = <<>>
    /\ result = <<>>
    /\ trace = <<>>
    /\ invocations = <<>>
    /\ response = <<>>

PipelineVars == <<lot_data, building_config, current_lot_data, files, result, trace, invocations, response>>

IdleProgress ==
    /\ generation_progress = <<>>
    /\ tasks = <<>>
    /\ streams = <<>>

ProgressVars == <<generation_progress, tasks, streams>>

IdleFunctions ==
    /\ fn_in = <<>>
    /\ fn_out = <<>>

FunctionVars == <<fn_in, fn_out>>

MultiplexInit ==
    /\ \E w \in BuildableWidths, d \in BuildableDepths, nb \in 1..MaxBuildings,
          sb \in SetbackBoundaryChoices, ratio \in AreaRatios :
          \E upb \in [1..nb -> UnitCounts] :
             ml_in = [buildable_width |-> R(w),
                      buildable_depth |-> R(d),
                      building_configuration |->
                          [num_buildings |-> nb,
                           units_per_building |-> upb,
                           layout_type |-> "multiplex"],
                      max_building_area |->
                          RMul(physical_dimensions(R(w), R(d), sb).area, ratio),
                      setback_boundaries |-> sb,
                      buildable_min_x |-> R(12),
                      buildable_min_y |-> R(60)]
    /\ ml_out = <<>>
    /\ el_in = <<>>
    /\ el_out = <<>>
    /\ IdlePipeline
    /\ IdleFunctions
    /\ IdleProgress

CalculateMultiplexLayout ==
    /\ ml_in # <<>>
    /\ ml_out = <<>>
    /\ ml_out' = <<calculate_multiplex_layout(
                       ml_in.buildable_width, ml_in.buildable_depth,
                       ml_in.building_configuration, ml_in.max_building_area,
                       ml_in.setback_boundaries, ml_in.buildable_min_x,
                       ml_in.buildable_min_y)>>
    /\ UNCHANGED <<ml_in, el_in, el_out>>
    /\ UNCHANGED PipelineVars
    /\ UNCHANGED FunctionVars
    /\ UNCHANGED ProgressVars

MultiplexNext == CalculateMultiplexLayout

SpecMultiplex == MultiplexInit /\ [][MultiplexNext]_vars

SiteAreas == {29900, 30600, 39900, 40000, 46400, 55700, 60000}
LotDepths == {240, 250, 349, 350, 400}
SelectedUnitCounts == {1, 2, 4, 5, 6}
Positions == {"rear", "side"}
AccessoryTypes == {"coach_house", "garage"}
\* the front and rear setbacks of the request the validation belongs to
RequestSetbacks == {<<49, 107>>, <<60, 75>>, <<120, 100>>}

EligibilityInit ==
    /\ \E a \in SiteAreas, d \in LotDepths, n \in SelectedUnitCounts,
          ch \in BOOLEAN, ab \in BOOLEAN, pos \in Positions,
          ty \in AccessoryTypes, sbk \in RequestSetbacks :
          el_in = [site_area |-> a,
                   lot_depth |-> d,
                   selected_units |-> n,
                   setbacks |-> [front |-> sbk[1], rear |-> sbk[2]],
                   building_config |->
                       [include_coach_house |-> ch,
                        coach_house_position |-> pos,
                        include_accessory_building |-> ab,
                        accessory_building_type |-> ty,
                        accessory_building_position |-> pos]]
    /\ el_out = <<>>
    /\ ml_in = <<>>
    /\ ml_out = <<>>
    /\ IdlePipeline
    /\ IdleFunctions
    /\ IdleProgress

ValidateCoachHouse ==
    /\ el_in # <<>>
    /\ el_out = <<>>
    /\ el_out' = <<[validator |-> "coach_house",
                    validation_result |->
                        validate_coach_house_eligibility(
                            el_in.site_area, el_in.lot_depth,
                            el_in.selected_units, el_in.building_config)]>>
    /\ UNCHANGED <<ml_in, ml_out, el_in>>
    /\ UNCHANGED PipelineVars
    /\ UNCHANGED FunctionVars
    /\ UNCHANGED ProgressVars

ValidateAccessoryBuilding ==
    /\ el_in # <<>>
    /\ el_out = <<>>
    /\ el_out' = <<[validator |-> "accessory_building",
                    validation_result |->
                        validate_accessory_building_eligibility(
                            el_in.site_area, el_in.lot_depth,
                            el_in.selected_units, el_in.building_config)]>>
    /\ UNCHANGED <<ml_in, ml_out, el_in>>
    /\ UNCHANGED PipelineVars
    /\ UNCHANGED FunctionVars
    /\ UNCHANGED ProgressVars

EligibilityNext == ValidateCoachHouse \/ ValidateAccessoryBuilding

SpecEligibility == EligibilityInit /\ [][EligibilityNext]_vars

-----------------------------------------------------------------------------
(* Requests to generate_building_units                                     *)

MaxCalls == 2

\* a rectangular parcel of w x d decimetres as a closed GeoJSON ring
rectangle(w, d) ==
    LET lon0 == R(0 - 123)
        lat0 == R(49)
        lon1 == RAdd(lon0, Rat(w, lon_to_m))
        lat1 == RAdd(lat0, Rat(d, lat_to_m))
    IN  [type |-> "Polygon",
         coordinates |-> << << <<lon0, lat0>>, <<lon1, lat0>>, <<lon1, lat1>>,
                               <<lon0, lat1>>, <<lon0, lat0>> >> >>]

no_lot_characteristics == <<>>

\* parcel_geometry, lot_width, lot_depth, site_area, lot_characteristics
Parcels ==
    { [parcel_geometry |-> <<rectangle(150, 300)>>, lot_width |-> 150,
       lot_depth |-> 300, site_area |-> 45000,
       lot_characteristics |-> no_lot_characteristics],
      [parcel_geometry |-> <<rectangle(50, 300)>>, lot_width |-> 50,
       lot_depth |-> 300, site_area |-> 15000,
       lot_characteristics |-> no_lot_characteristics],
      [parcel_geometry |-> <<rectangle(200, 400)>>, lot_width |-> 200,
       lot_depth |-> 400, site_area |-> 80000,
       lot_characteristics |-> <<[lot_width |-> 200, lot_depth |-> 400]>>],
      \* a site area that is a quarter of the parcel's bounding box
      [parcel_geometry |-> <<rectangle(200, 400)>>, lot_width |-> 200,
       lot_depth |-> 400, site_area |-> 20000,
       lot_characteristics |-> no_lot_characteristics],
      [parcel_geometry |-> <<rectangle(70, 600)>>, lot_width |-> 70,
       lot_depth |-> 600, site_area |-> 42000,
       lot_characteristics |-> no_lot_characteristics],
      \* lot characteristics that differ from the parcel's bounding box
      [parcel_geometry |-> <<rectangle(150, 300)>>, lot_width |-> 200,
       lot_depth |-> 400, site_area |-> 80000,
       lot_characteristics |-> <<[lot_width |-> 200, lot_depth |-> 400]>>],
      \* a request without parcel geometry
      [parcel_geometry |-> <<>>, lot_width |-> 150,
       lot_depth |-> 300, site_area |-> 45000,
       lot_characteristics |-> no_lot_characteristics],
      \* a parcel geometry that _process_parcel_geometry rejects
      [parcel_geometry |-> <<[rectangle(150, 300) EXCEPT !.type = "MultiPolygon"]>>,
       lot_width |-> 150, lot_depth |-> 300, site_area |-> 45000,
       lot_characteristics |-> no_lot_characteristics] }

Setbacks ==
    { [front |-> 60, side |-> 12, rear |-> 75],
      [front |-> 49, side |-> 12, rear |-> 107],
      [front |-> 100, side |-> 12, rear |-> 100],
      [front |-> 40, side |-> 10, rear |-> 40],
      [front |-> 60, side |-> 50, rear |-> 75] }

SelectedUnits == {1, 3, 4, 8}

Configurations ==
    { [num_buildings |-> 1, units_per_building |-> <<4>>, layout_type |-> "multiplex"],
      [num_buildings |-> 1, units_per_building |-> <<8>>, layout_type |-> "multiplex"],
      [num_buildings |-> 2, units_per_building |-> <<2, 2>>, layout_type |-> "multiplex"],
      [num_buildings |-> 3, units_per_building |-> <<1, 1, 1>>, layout_type |-> "multiplex"],
      [num_buildings |-> 1, units_per_building |-> <<2>>, layout_type |-> "separate"],
      [num_buildings |-> 1, units_per_building |-> <<4>>, layout_type |-> "separate"],
      [num_buildings |-> 2, units_per_building |-> <<1, 2>>, layout_type |-> "separate"] }

\* three separate units whose request names no building count
separate_without_count == [units_per_building |-> <<3>>, layout_type |-> "separate"]

BuildingLayouts == {"standard_row", "courtyard"}
Coverages == {<<3, 10>>, <<1, 2>>}
\* "none": no coach house requested
CoachHouseChoices == {"none", "rear", "side"}

\* every square root the call takes is the root of a rational square, so
\* that the model computes it exactly
ExactSquareRoots(request) ==
    (/\ request.site_data.parcel_geometry # <<>>
     /\ request.site_data.parcel_geometry[1].type = "Polygon") =>
        LET vertices == process_parcel_geometry(request.site_data.parcel_geometry[1])
            b == bounding_box(vertices)
            lc == request.site_data.lot_characteristics
            w == IF lc # <<>> THEN R(lc[1].lot_width) ELSE RSub(b.max_x, b.min_x)
            d == IF lc # <<>> THEN R(lc[1].lot_depth) ELSE RSub(b.max_y, b.min_y)
            area_ratio == RDiv(RMul(w, d), R(request.site_area))
        IN  /\ (RLt(area_ratio, <<8, 10>>) \/ RLt(<<12, 10>>, area_ratio))
                   => HasSqrt(RDiv(R(request.site_area), RMul(w, d)))
            /\ LET lot == lot_dimensions(request.site_data, vertices, request.site_area)
                   s == capped_setbacks(request.setbacks, RSub(b.max_x, b.min_x),
                                        RSub(b.max_y, b.min_y))
                   physical ==
                       RMul(RMax(R(0), RSub(lot.lot_width, RMul(R(2), s.side))),
                            RMax(R(0), RSub(RSub(lot.lot_depth, s.front), s.rear)))
                   final_area == final_building_area(physical, request.site_area)
               IN  RLt(final_area, physical) => HasSqrt(RDiv(final_area, physical))

\* selected_units alone (the legacy request), with a building configuration,
\* and with the configuration also handed over in zoning_data
UnitRequests ==
    {[selected_units |-> n, building_configuration |-> <<>>, zoned |-> FALSE] :
        n \in SelectedUnits}
    \cup {[selected_units |-> n, building_configuration |-> <<c>>, zoned |-> FALSE] :
        n \in {1, 4}, c \in Configurations}
    \cup {[selected_units |-> 4, building_configuration |-> <<c>>, zoned |-> TRUE] :
        c \in Configurations}
    \cup {[selected_units |-> 3, building_configuration |-> <<separate_without_count>>,
           zoned |-> FALSE]}

Requests ==
    { [lot_width |-> p.lot_width, lot_depth |-> p.lot_depth,
       site_area |-> p.site_area, setbacks |-> sb,
       multiple_dwelling |-> [selected_units |-> u.selected_units,
                              building_configuration |-> u.building_configuration],
       zoning_data |-> [multiple_dwelling |->
                           [building_configuration |->
                               IF u.zoned THEN u.building_configuration ELSE <<>>]],
       site_data |-> [parcel_geometry |-> p.parcel_geometry,
                      lot_characteristics |-> p.lot_characteristics]] :
      p \in Parcels, sb \in Setbacks, u \in UnitRequests }

BuildingConfigs ==
    { [building_layout |-> bl, coverage |-> cov,
       include_coach_house |-> ch # "none",
       coach_house_position |-> IF ch = "none" THEN "rear" ELSE ch,
       coach_house_warnings |-> <<>>] :
      bl \in BuildingLayouts, cov \in Coverages, ch \in CoachHouseChoices }

Init ==
    /\ lot_data \in {r \in Requests : ExactSquareRoots(r)}
    /\ building_config \in BuildingConfigs
    /\ current_lot_data = <<>>
    /\ files = no_files
    /\ result = <<>>
    /\ trace = <<>>
    /\ ml_in = <<>>
    /\ ml_out = <<>>
    /\ el_in = <<>>
    /\ el_out = <<>>
    /\ IdleFunctions
    /\ IdleProgress
    /\ invocations = <<>>
    /\ response = <<>>

\* what the /api/generate-building-units handler (src/backend/app.py) answers
\* after the generator returned: an error answer, or the requested
\* selected_units as total_units with the unit files 1..selected_units that
\* exist in the models directory
building_units_response(selected_units, generation_result, directory) ==
    IF generation_result.error # ""
    THEN [status |-> 500, total_units |-> <<>>, unit_files |-> {}]
    ELSE [status |-> 200, total_units |-> <<selected_units>>,
          unit_files |-> {unit \in 1..selected_units : unit <= Len(directory.unit_files)}]

\* one call of generate_building_units(lot_data), as made by the handler of
\* /api/generate-building-units; lot_data['building_config'] is the same dict
\* object in every call
GenerateBuildingUnits ==
    /\ lot_data # <<>>
    /\ Len(result) < MaxCalls
    /\ \E g \in {generate_building_units(lot_data, building_config)} :
           /\ building_config' = g.building_config
           /\ current_lot_data' = IF g.stored THEN <<lot_data>> ELSE current_lot_data
           /\ files' = files_after(files, g.wrote)
           /\ result' = Append(result, g.ret)
           /\ trace' = Append(trace, [building_config |-> building_config,
                                      wrote |-> g.wrote,
                                      locals |-> g.locals])
           /\ response' = Append(response,
                  building_units_response(lot_data.multiple_dwelling.selected_units,
                                          g.ret, files_after(files, g.wrote)))
    /\ UNCHANGED <<lot_data, ml_in, ml_out, el_in, el_out, invocations>>
    /\ UNCHANGED FunctionVars
    /\ UNCHANGED ProgressVars

Next == GenerateBuildingUnits

Spec == Init /\ [][Next]_vars

-----------------------------------------------------------------------------
(* Properties of _calculate_multiplex_layout, checked under SpecMultiplex  *)

ReturnedUnits(o) == SumSeq(o.building_configuration.units_per_building)
RequestedUnits == SumSeq(ml_in.building_configuration.units_per_building)

\* C1: in every result of _calculate_multiplex_layout, unit_width times the
\* returned unit count plus the total separation 2.4 x (num_buildings - 1)
\* is at most the buildable width used for the layout (after scaling),
\* also when the separation alone reaches the buildable width.
C1_FootprintWithinBuildableWidth ==
    ml_out # <<>> =>
        LET o == ml_out[1]
        IN  RLe(RAdd(RMul(o.unit_width, R(ReturnedUnits(o))),
                     R(24 * (ml_in.building_configuration.num_buildings - 1))),
                o.buildable_width)

\* C2: whenever available_width / requested units is below 3.0 m: if
\* floor(available_width / 3.0) > 0 the returned unit count is that floor,
\* strictly below the requested count, and unit_width = available_width /
\* returned count is at least 3.0 m; otherwise the result is one unit in one
\* building as wide as available_width.
C2_DowngradeToViableUnits ==
    ml_out # <<>> =>
        LET o == ml_out[1]
            avail == o.available_width
            viable == RFloorDiv(avail, R(30))
        IN  RLt(avail, R(30 * RequestedUnits)) =>
                IF viable > 0
                THEN /\ ReturnedUnits(o) = viable
                     /\ ReturnedUnits(o) < RequestedUnits
                     /\ o.unit_width = RDiv(avail, R(ReturnedUnits(o)))
                     /\ RLe(R(30), o.unit_width)
                ELSE /\ o.building_configuration.num_buildings = 1
                     /\ o.building_configuration.units_per_building = <<1>>
                     /\ o.unit_width = avail

\* C2 witness: 8 units requested in one building on 12.6 m come back as
\* 4 units of 3.15 m.
C2_Witness ==
    /\ ml_out # <<>>
    /\ ml_in.setback_boundaries = <<>>
    /\ ml_in.building_configuration.units_per_building = <<8>>
    /\ ml_out[1].available_width = R(126)
    /\ ml_out[1].building_configuration.units_per_building = <<4>>
    /\ ml_out[1].unit_width = <<63, 2>>
    /\ ml_out[1].configuration_downgraded

-----------------------------------------------------------------------------
(* Properties of the eligibility validators, checked under SpecEligibility *)

\* C8: with include_coach_house = true, _validate_coach_house_eligibility
\* returns eligible = true exactly when site_area >= the unit-count minimum,
\* site_area >= 400 m2, lot_depth >= 35 m and lot_depth minus the request's
\* front and rear setbacks >= required separation + 8.5 m; every site_area
\* below 400 m2 gives eligible = false with a reason naming the 400 m2 minimum.
C8_EligibleIffChecksOnRequestSetbacks ==
    (/\ el_out # <<>>
     /\ el_out[1].validator = "coach_house"
     /\ el_in.building_config.include_coach_house) =>
        LET r == el_out[1].validation_result
            n == el_in.selected_units
            unit_minimum == IF n \in {3, 4} THEN 30600
                            ELSE IF n = 5 THEN 46400
                            ELSE IF n \in 6..8 THEN 55700 ELSE 0
            separation == IF el_in.building_config.coach_house_position = "rear"
                          THEN 61 ELSE 24
        IN  /\ r.eligible <=>
                  /\ el_in.site_area >= unit_minimum
                  /\ el_in.site_area >= 40000
                  /\ el_in.lot_depth >= 350
                  /\ el_in.lot_depth - el_in.setbacks.front - el_in.setbacks.rear
                         >= separation + 85
            /\ el_in.site_area < 40000 =>
                  /\ ~r.eligible
                  /\ \E k \in 1..Len(r.reasons) :
                        r.reasons[k] = [check |-> "accessory_site_area",
                                        required |-> 40000]

\* the hard checks that fail for the validated request, from its inputs
C9_FailingHardChecks ==
    LET cfg == el_in.building_config
        own == el_out[1].validator = "coach_house"
        requested == IF own THEN cfg.include_coach_house
                     ELSE cfg.include_accessory_building
        coach == own \/ cfg.accessory_building_type = "coach_house"
        rear == IF own THEN cfg.coach_house_position = "rear"
                ELSE cfg.accessory_building_position = "rear"
        separation == IF coach THEN (IF rear THEN 61 ELSE 24)
                      ELSE (IF rear THEN 30 ELSE 12)
        n == el_in.selected_units
        unit_minimum == IF n \in {3, 4} THEN 30600
                        ELSE IF n = 5 THEN 46400
                        ELSE IF n \in 6..8 THEN 55700 ELSE 0
    IN  IF ~requested THEN {}
        ELSE {c \in {"units_site_area", "accessory_site_area", "lot_depth",
                     "separation_depth"} :
                \/ c = "units_site_area" /\ el_in.site_area < unit_minimum
                \/ c = "accessory_site_area"
                     /\ el_in.site_area < (IF coach THEN 40000 ELSE 30000)
                \/ c = "lot_depth"
                     /\ el_in.lot_depth < (IF coach THEN 350 ELSE 250)
                \/ c = "separation_depth"
                     /\ el_in.lot_depth - 49 - 107
                            < separation + (IF coach THEN 85 ELSE 60)}

\* C9: in every result of both validators eligible = false exactly when
\* reasons is non-empty, reasons holds exactly one entry per failing hard
\* check (all of them, not only the first), and the coverage and FAR soft
\* checks only append warnings: eligible is decided by the hard checks alone.
C9_ReasonsMatchFailingChecks ==
    el_out # <<>> =>
        LET r == el_out[1].validation_result
        IN  /\ (r.eligible = FALSE) <=> (r.reasons # <<>>)
            /\ Len(r.reasons) = Cardinality(C9_FailingHardChecks)
            /\ {r.reasons[k].check : k \in 1..Len(r.reasons)} = C9_FailingHardChecks
            /\ r.eligible <=> (C9_FailingHardChecks = {})
            /\ \A k \in 1..Len(r.warnings) : r.warnings[k] \in {"coverage", "far"}

\* C9 witness: a result with three reasons at once and both warnings.
C9_Witness ==
    /\ el_out # <<>>
    /\ ~el_out[1].validation_result.eligible
    /\ Len(el_out[1].validation_result.reasons) >= 3
    /\ Len(el_out[1].validation_result.warnings) = 2

-----------------------------------------------------------------------------
(* Properties of generate_building_units                                   *)

Calls == 1..Len(result)
LayoutRan(k) == trace[k].locals # <<>>
Locals(k) == trace[k].locals[1]
Succeeded(k) == result[k].success = <<TRUE>>
\* the unit count asked of the layout step
RequestedMainUnits(k) == SumSeq(Locals(k).requested_configuration.units_per_building)
\* floor(available_width / 3.0) = 0 for a unit width below the minimum
NoViableUnit(k) ==
    /\ LayoutRan(k)
    /\ Locals(k).unit_width_violation
    /\ max_viable_units(Locals(k).available_width) = 0

C4_RepeatedCallsAgree ==
    Len(result) >= 2 =>
        /\ result[2] = result[1]
        /\ trace[2].wrote = trace[1].wrote
        /\ trace[2].building_config.include_coach_house
               = trace[1].building_config.include_coach_house

\* C5: the footprint of the main units, total units x unit_width x unit_depth,
\* is at most min(physical buildable area, coverage x site_area) with the
\* coverage of the request's building_config.
C5_FootprintWithinCoverage ==
    \A k \in Calls :
        Succeeded(k) =>
            RLe(RMul(R(Locals(k).main_units),
                     RMul(Locals(k).unit_width, Locals(k).unit_depth)),
                RMin(Locals(k).physical_buildable_area,
                     RMul(R(lot_data.site_area), trace[k].building_config.coverage)))

\* the courtyard precondition of the request fails: lot depth below 33.5 m or
\* fewer than 4 units
CourtyardPreconditionFails ==
    \/ lot_data.lot_depth < min_courtyard_depth
    \/ lot_data.multiple_dwelling.selected_units < courtyard_min_units

\* C6: a courtyard request on a lot that fails the courtyard precondition, and
\* that succeeds when standard_row is requested instead, succeeds and is laid
\* out as standard_row.
C6_CourtyardFallsBackToStandardRow ==
    \A k \in Calls :
        (/\ trace[k].building_config.building_layout = "courtyard"
         /\ CourtyardPreconditionFails
         /\ generate_building_units(lot_data,
                [trace[k].building_config EXCEPT !.building_layout = "standard_row"]
            ).ret.success = <<TRUE>>)
        => /\ Succeeded(k)
           /\ Locals(k).building_layout = "standard_row"

\* the coach-house validation of call k ran and reported eligible = false
CoachHouseFoundIneligible(k) ==
    /\ result[k].success # <<FALSE>>
    /\ ~validate_coach_house_eligibility(lot_data.site_area, lot_data.lot_depth,
            lot_data.multiple_dwelling.selected_units,
            trace[k].building_config).eligible

\* C7: when the coach-house validation reports eligible = false, the layout
\* step sees include_coach_house = false, writes neither the coach-house file
\* nor the coach-house block of the combined file, and the main layout is
\* still produced.
C7_IneligibleCoachHouseOmitted ==
    \A k \in Calls :
        CoachHouseFoundIneligible(k) =>
            /\ LayoutRan(k)
            /\ ~Locals(k).include_coach_house
            /\ trace[k].wrote.coach_house_file = <<>>
            /\ Succeeded(k)
            /\ Len(trace[k].wrote.unit_files) >= 1
            /\ trace[k].wrote.combined_file # <<>>
            /\ trace[k].wrote.combined_file[1].complete
            /\ trace[k].wrote.combined_file[1].coach_house = <<>>

\* width W and depth D of the rectangular parcel of the request
ParcelWidth ==
    LET b == bounding_box(process_parcel_geometry(lot_data.site_data.parcel_geometry[1]))
    IN  RSub(b.max_x, b.min_x)
ParcelDepth ==
    LET b == bounding_box(process_parcel_geometry(lot_data.site_data.parcel_geometry[1]))
    IN  RSub(b.max_y, b.min_y)

LotIsParcel(W, D) ==
    /\ \/ lot_data.site_data.lot_characteristics = <<>>
       \/ /\ R(lot_data.site_data.lot_characteristics[1].lot_width) = W
          /\ R(lot_data.site_data.lot_characteristics[1].lot_depth) = D
    /\ RLe(RMul(R(lot_data.site_area), <<8, 10>>), RMul(W, D))
    /\ RLe(RMul(W, D), RMul(R(lot_data.site_area), <<12, 10>>))

-----------------------------------------------------------------------------
(* calculate_site_setbacks (src/backend/app.py): the setbacks measured     *)
(* from the existing building footprint, compared with the zoning table.   *)
(* A missing value (Python None) is <<>>, a present value x is <<x>>.      *)

None == <<>>

\* Python's `a or b`: b when a is falsy (None or 0), otherwise a
python_or(a, b) == IF a = None \/ a = <<0>> THEN b ELSE a

\* one pass of the `for setback_type in ['front', 'side', 'rear']` loop
compliant_setback(calculated, required) ==
    IF calculated # None /\ required # None
    THEN <<IF calculated[1] >= required[1] THEN calculated[1] ELSE required[1]>>
    ELSE python_or(calculated, required)

no_setbacks(method) == [front |-> None, side |-> None, rear |-> None, method |-> method]

\* calculated_setbacks: the front edge always, side and rear only when at
\* least two other edges exist
calculated_setbacks(parcel_edges, distance) ==
    [front |-> distance.front,
     side |-> IF parcel_edges - 1 >= 2 THEN distance.side ELSE None,
     rear |-> IF parcel_edges - 1 >= 2 THEN distance.rear ELSE None]

\* building_geometry: whether a footprint was fetched; parcel_edges: the
\* number of edges of the parcel ring; distance: what calculate_setback_to_edge
\* returns for the front, side and rear edge; required_setbacks: the entries
\* of the zoning rule of the parcel's district
calculate_site_setbacks(building_geometry, parcel_edges, distance, required_setbacks) ==
    IF ~building_geometry THEN no_setbacks("no_building_found")
    ELSE IF parcel_edges = 0 THEN no_setbacks("no_parcel_edges")
    ELSE LET calculated == calculated_setbacks(parcel_edges, distance)
         IN  [front |-> compliant_setback(calculated.front, required_setbacks.front),
              side |-> compliant_setback(calculated.side, required_setbacks.side),
              rear |-> compliant_setback(calculated.rear, required_setbacks.rear),
              method |-> "building_footprint_analysis_with_compliance_check"]

SetbackTypes == {"front", "side", "rear"}
\* distances from the footprint to a parcel edge, in decimetres
Distances == {None, <<0>>, <<60>>}
\* setbacks of a zoning rule, in decimetres
RequiredSetbacks == {None, <<0>>, <<49>>}
ParcelEdgeCounts == {0, 2, 4}

IdleCalls ==
    /\ ml_in = <<>>
    /\ ml_out = <<>>
    /\ el_in = <<>>
    /\ el_out = <<>>

CallVars == <<ml_in, ml_out, el_in, el_out>>

SetbacksInit ==
    /\ \E b \in BOOLEAN, n \in ParcelEdgeCounts :
       \E d \in [SetbackTypes -> Distances], r \in [SetbackTypes -> RequiredSetbacks] :
          fn_in = [building_geometry |-> b, parcel_edges |-> n,
                   distance |-> d, required_setbacks |-> r]
    /\ fn_out = <<>>
    /\ IdleCalls
    /\ IdlePipeline
    /\ IdleProgress

CalculateSiteSetbacks ==
    /\ fn_in # <<>>
    /\ fn_out = <<>>
    /\ fn_out' = <<calculate_site_setbacks(fn_in.building_geometry, fn_in.parcel_edges,
                                           fn_in.distance, fn_in.required_setbacks)>>
    /\ UNCHANGED fn_in
    /\ UNCHANGED CallVars
    /\ UNCHANGED PipelineVars
    /\ UNCHANGED ProgressVars

SetbacksNext == CalculateSiteSetbacks

SpecSetbacks == SetbacksInit /\ [][SetbacksNext]_vars

\* what the footprint analysis makes available for one side
AvailableCalculated(t) ==
    IF fn_in.building_geometry /\ fn_in.parcel_edges > 0
       /\ (t = "front" \/ fn_in.parcel_edges - 1 >= 2)
    THEN fn_in.distance[t]
    ELSE None

\* C11: in the calls that reach the comparison with the zoning table, for
\* front, side and rear independently, the effective setback is
\* max(required, calculated) when both are available, the one available
\* value when only one is (a value of 0 included), and null only when
\* neither is available.
C11_EffectiveSetbackIsLargerAvailable ==
    (fn_out # <<>> /\ fn_in.building_geometry /\ fn_in.parcel_edges > 0) =>
        \A t \in SetbackTypes :
            LET c == AvailableCalculated(t)
                r == fn_in.required_setbacks[t]
                e == fn_out[1][t]
            IN  /\ (c # None /\ r # None) =>
                       e = <<IF c[1] >= r[1] THEN c[1] ELSE r[1]>>
                /\ (c # None /\ r = None) => e = c
                /\ (c = None /\ r # None) => e = r
                /\ (c = None /\ r = None) => e = None

-----------------------------------------------------------------------------
(* detect_corner_lot_enhanced and its helpers (src/backend/app.py).        *)
(* A point is <<lon, lat>> in units of 0.00001 degree; an edge is a pair   *)
(* of points; edge lengths are decimetres.  A Python block either returns  *)
(* a value or raises.                                                      *)

returns(value) == [raised |-> FALSE, value |-> value]
raises(error) == [raised |-> TRUE, value |-> error]

\* decimetres per 0.00001 degree of longitude and of latitude at 49.25 N
lon_unit == 7
lat_unit == 11

\* the haversine distance between the ends of an edge, to the decimetre
calculate_edge_length(edge) ==
    IF Len(edge) < 2 THEN 0
    ELSE ISqrt((lon_unit * (edge[2][1] - edge[1][1])) * (lon_unit * (edge[2][1] - edge[1][1]))
               + (lat_unit * (edge[2][2] - edge[1][2])) * (lat_unit * (edge[2][2] - edge[1][2])))

extract_parcel_edges(coords) ==
    [i \in 1..(IF Len(coords) = 0 THEN 0 ELSE Len(coords) - 1) |-> <<coords[i], coords[i + 1]>>]

\* an edge without two points raises inside the helper, which returns [0, 0]
calculate_vector(edge) ==
    IF Len(edge) < 2 THEN <<0, 0>>
    ELSE <<edge[2][1] - edge[1][1], edge[2][2] - edge[1][2]>>

\* cos(85 degrees) squared is 0.0075961; the inputs keep clear of the threshold
cos_squared_85_num == 76
cos_squared_85_den == 10000

\* whether calculate_angle_between_vectors(v1, v2), which folds the angle
\* into 0..90 by min(angle, 180 - angle), lies within 85..95: the folded
\* angle is at least 85 exactly when cos^2 <= cos^2(85)
is_right_angle(v1, v2) ==
    LET dot_product == v1[1] * v2[1] + v1[2] * v2[2]
        mag1_squared == v1[1] * v1[1] + v1[2] * v1[2]
        mag2_squared == v2[1] * v2[1] + v2[2] * v2[2]
    IN  IF mag1_squared = 0 \/ mag2_squared = 0 THEN FALSE
        ELSE dot_product * dot_product
                 <= (cos_squared_85_num * (mag1_squared * mag2_squared)) \div cos_squared_85_den

\* the corners i of calculate_corner_angles whose angle is within 85..95
right_angles(parcel_edges) ==
    {i \in 1..Len(parcel_edges) :
        is_right_angle(calculate_vector(parcel_edges[i]),
                       calculate_vector(parcel_edges[(i % Len(parcel_edges)) + 1]))}

RECURSIVE RemoveFirst(_, _)
RemoveFirst(s, x) ==
    IF s = <<>> THEN <<>>
    ELSE IF Head(s) = x THEN Tail(s)
    ELSE <<Head(s)>> \o RemoveFirst(Tail(s), x)

\* sorted(edge_lengths, reverse=True)
RECURSIVE sorted_descending(_)
sorted_descending(s) ==
    IF s = <<>> THEN <<>>
    ELSE <<SeqMax(s)>> \o sorted_descending(RemoveFirst(s, SeqMax(s)))

\* sorted(edge_lengths)
sorted_ascending(s) ==
    [i \in 1..Len(s) |-> sorted_descending(s)[Len(s) + 1 - i]]

\* 1 - abs(a - b) / max(a, b)
pair_similarity(a, b) ==
    RSub(R(1), Rat(Abs(a - b), IF a >= b THEN a ELSE b))

clamp_unit(r) == RMax(R(0), RMin(R(1), r))

\* pairs the sorted lengths: the two shortest and the two longest
calculate_shape_regularity(edge_lengths) ==
    IF Len(edge_lengths) # 4 THEN <<1, 2>>
    ELSE LET sorted_lengths == sorted_ascending(edge_lengths)
         IN  IF sorted_lengths[2] = 0 \/ sorted_lengths[4] = 0
             THEN <<1, 2>>      \* ZeroDivisionError, caught by the helper
             ELSE clamp_unit(RDiv(RAdd(pair_similarity(sorted_lengths[1], sorted_lengths[2]),
                                       pair_similarity(sorted_lengths[3], sorted_lengths[4])),
                                  R(2)))

min_street_frontage == 200
min_corner_frontage == 250

\* the criteria of detect_corner_lot_enhanced in the order the code tests them
corner_lot_criteria(parcel_edges, edge_lengths) ==
    LET sorted_edges == sorted_descending(edge_lengths)
    IN  IF Cardinality({i \in 1..Len(edge_lengths) : edge_lengths[i] >= min_street_frontage}) < 2
        THEN "standard"
        ELSE IF RLt(IF sorted_edges[1] > 0 THEN Rat(sorted_edges[2], sorted_edges[1]) ELSE R(0),
                    <<85, 100>>)
        THEN "standard"
        ELSE IF Cardinality(right_angles(parcel_edges)) < 2 THEN "standard"
        ELSE IF RLt(calculate_shape_regularity(edge_lengths), <<9, 10>>) THEN "standard"
        ELSE IF sorted_edges[2] <= 0 \/ RLt(<<3, 2>>, Rat(sorted_edges[1], sorted_edges[2]))
        THEN "standard"
        ELSE IF Len(parcel_edges) # 4 THEN "standard"
        ELSE IF sorted_edges[1] < min_corner_frontage \/ sorted_edges[2] < min_corner_frontage
        THEN "standard"
        ELSE "corner"

\* the body of the try block: parcel_edges is None or <<list of edges>>,
\* edge_lengths is a list whose entries are None or <<number>>
detect_corner_lot_try(parcel_edges, edge_lengths) ==
    IF parcel_edges = None THEN raises("TypeError")
    ELSE IF Len(parcel_edges[1]) < 4 \/ Len(edge_lengths) < 4 THEN returns("standard")
    ELSE IF \E i \in 1..Len(edge_lengths) : edge_lengths[i] = None THEN raises("TypeError")
    ELSE returns(corner_lot_criteria(parcel_edges[1],
                                     [i \in 1..Len(edge_lengths) |-> edge_lengths[i][1]]))

\* faulty variant of standard_on_exception: the exception escapes
reraise_exception(outcome) == outcome.value

\* except Exception: return 'standard'
standard_on_exception(outcome) ==
    IF outcome.raised THEN "standard" ELSE outcome.value

detect_corner_lot_enhanced(parcel_edges, edge_lengths) ==
    standard_on_exception(detect_corner_lot_try(parcel_edges, edge_lengths))

\* a ring with right angles at its first two corners: (0,0), (dx,0),
\* (dx,dy_right), (0,dy_left); a rectangle when dy_right = dy_left
right_trapezoid(dx, dy_right, dy_left) ==
    <<<<0, 0>>, <<dx, 0>>, <<dx, dy_right>>, <<0, dy_left>>, <<0, 0>>>>

TrapezoidWidths == {28, 30, 41, 50}
TrapezoidDepths == {18, 23, 25, 30, 31}

triangle_ring == <<<<0, 0>>, <<41, 0>>, <<0, 25>>, <<0, 0>>>>
pentagon_ring == <<<<0, 0>>, <<41, 0>>, <<41, 25>>, <<20, 30>>, <<0, 25>>, <<0, 0>>>>
point_ring == <<<<0, 0>>, <<0, 0>>, <<0, 0>>, <<0, 0>>, <<0, 0>>>>

Rings ==
    {right_trapezoid(dx, r, l) : dx \in TrapezoidWidths, r \in TrapezoidDepths, l \in TrapezoidDepths}
        \cup {triangle_ring, pentagon_ring, point_ring}

\* what the callers pass: the edges of the ring and their lengths
measured(ring) ==
    [parcel_edges |-> <<extract_parcel_edges(ring)>>,
     edge_lengths |-> [i \in 1..(Len(ring) - 1) |-> <<calculate_edge_length(extract_parcel_edges(ring)[i])>>]]

\* malformed arguments: no edge list, a length that is not a number, an
\* edge of one point, fewer lengths than edges
Malformed(ring) ==
    {[measured(ring) EXCEPT !.parcel_edges = None],
     [measured(ring) EXCEPT !.edge_lengths[1] = None],
     [measured(ring) EXCEPT !.parcel_edges[1][2] = <<<<0, 0>>>>],
     [measured(ring) EXCEPT !.edge_lengths = Tail(@)]}

CornerLotInit ==
    /\ fn_in \in {measured(ring) : ring \in Rings}
                     \cup UNION {Malformed(right_trapezoid(41, l, l)) : l \in {25, 31}}
    /\ fn_out = <<>>
    /\ IdleCalls
    /\ IdlePipeline
    /\ IdleProgress

DetectCornerLot ==
    /\ fn_in # <<>>
    /\ fn_out = <<>>
    /\ fn_out' = <<detect_corner_lot_enhanced(fn_in.parcel_edges, fn_in.edge_lengths)>>
    /\ UNCHANGED fn_in
    /\ UNCHANGED CallVars
    /\ UNCHANGED PipelineVars
    /\ UNCHANGED ProgressVars

CornerLotNext == DetectCornerLot

SpecCornerLot == CornerLotInit /\ [][CornerLotNext]_vars

WellFormed ==
    /\ fn_in.parcel_edges # None
    /\ \A i \in 1..Len(fn_in.edge_lengths) : fn_in.edge_lengths[i] # None
    /\ \A i \in 1..Len(fn_in.parcel_edges[1]) : Len(fn_in.parcel_edges[1][i]) = 2
    /\ Len(fn_in.edge_lengths) = Len(fn_in.parcel_edges[1])

EdgeLength(i) == fn_in.edge_lengths[i][1]

\* regularity as the specification defines it: the average similarity of
\* the two opposite edge pairs (e0, e2) and (e1, e3) of the quadrilateral
OppositePairRegularity ==
    RDiv(RAdd(pair_similarity(EdgeLength(1), EdgeLength(3)),
              pair_similarity(EdgeLength(2), EdgeLength(4))), R(2))

\* the six criteria of the classifier on a well-formed parcel
SixCriteria ==
    /\ Len(fn_in.parcel_edges[1]) = 4
    /\ \E i, j \in 1..4 :
          /\ i # j
          /\ \A k \in 1..4 : k \notin {i, j} =>
                 EdgeLength(k) <= EdgeLength(i) /\ EdgeLength(k) <= EdgeLength(j)
          /\ EdgeLength(i) >= EdgeLength(j)
          /\ EdgeLength(j) >= 250
          /\ EdgeLength(j) * 100 >= 85 * EdgeLength(i)
          /\ EdgeLength(i) * 2 <= 3 * EdgeLength(j)
    /\ Cardinality(right_angles(fn_in.parcel_edges[1])) >= 2
    /\ RLe(<<9, 10>>, OppositePairRegularity)

\* C12: on a well-formed parcel detect_corner_lot_enhanced returns 'corner'
\* if and only if all six criteria hold at once (exactly 4 edges; the two
\* longest edges both >= 25 m; second-longest / longest >= 0.85; at least
\* two corner angles within 85-95 degrees; regularity >= 0.90; longest /
\* second-longest <= 1.5), so that one failing criterion gives 'standard'.
C12_CornerIffAllSixCriteria ==
    (fn_out # <<>> /\ WellFormed) => (fn_out[1] = "corner" <=> SixCriteria)

\* C13: detect_corner_lot_enhanced returns 'corner' or 'standard' for every
\* input, malformed ones included; no exception escapes.
C13_NeverRaises ==
    fn_out # <<>> => fn_out[1] \in {"corner", "standard"}

\* a call whose try block raised has returned 'standard'
C13_Witness ==
    /\ fn_out = <<"standard">>
    /\ detect_corner_lot_try(fn_in.parcel_edges, fn_in.edge_lengths).raised

-----------------------------------------------------------------------------
(* analyze_detailed_geometry (src/backend/app.py): the parcel profile.     *)
(* It returns None or <<profile>>.                                         *)

\* sin(15 degrees) squared is 0.0669873; the inputs keep clear of the threshold
sin_squared_15_num == 67
sin_squared_15_den == 1000

\* abs(calculate_angle_between_edges(edge1, edge2) - 90) < 15: the angle of
\* the two direction vectors, 0 for a zero-length edge
near_right_angle(edge1, edge2) ==
    LET vec1 == <<edge1[2][1] - edge1[1][1], edge1[2][2] - edge1[1][2]>>
        vec2 == <<edge2[2][1] - edge2[1][1], edge2[2][2] - edge2[1][2]>>
        dot_product == vec1[1] * vec2[1] + vec1[2] * vec2[2]
        magnitudes == (vec1[1] * vec1[1] + vec1[2] * vec1[2]) * (vec2[1] * vec2[1] + vec2[2] * vec2[2])
    IN  IF magnitudes = 0 THEN FALSE
        ELSE dot_product * dot_product <= (sin_squared_15_num * magnitudes - 1) \div sin_squared_15_den

\* all(abs(angle - 90) < 15 for angle in angles) if angles else False, the
\* angles being those of the consecutive edge pairs (i, i + 1), without the
\* pair that closes the ring
is_rectangular(edges) ==
    /\ Len(edges) >= 2
    /\ \A i \in 1..(Len(edges) - 1) : near_right_angle(edges[i], edges[i + 1])

\* abs(bearing) < 45 or abs(bearing - 180) < 45 for the bearing in [0, 360)
\* of an edge, 0 being north and atan2(0, 0) being 0
bearing_qualifies(edge) ==
    LET east == lon_unit * (edge[2][1] - edge[1][1])
        north == lat_unit * (edge[2][2] - edge[1][2])
    IN  \/ east = 0 /\ north = 0
        \/ north > 0 /\ east >= 0 /\ east < north
        \/ north < 0 /\ Abs(east) < -north

\* the index of the first of the longest edges: max(edge_lengths, key=...)
longest_edge(lengths) == CHOOSE i \in 1..Len(lengths) : /\ lengths[i] = SeqMax(lengths)
                                                        /\ \A j \in 1..(i - 1) : lengths[j] < lengths[i]

\* the index of the street frontage: the first edge whose bearing
\* qualifies, else the longest edge
street_frontage(edges, lengths) ==
    IF \E i \in 1..Len(edges) : bearing_qualifies(edges[i])
    THEN CHOOSE i \in 1..Len(edges) : /\ bearing_qualifies(edges[i])
                                      /\ \A j \in 1..(i - 1) : ~bearing_qualifies(edges[j])
    ELSE longest_edge(lengths)

\* width and depth: the averaged shorter and longer pair of a rectangular
\* lot of at least four edges, else the shortest and the longest edge
lot_width_and_depth(rectangular, lengths) ==
    LET sorted_edges == sorted_ascending(lengths)
    IN  IF rectangular /\ Len(lengths) >= 4
        THEN [width |-> Rat(sorted_edges[1] + sorted_edges[2], 2),
              depth |-> Rat(sorted_edges[3] + sorted_edges[4], 2)]
        ELSE [width |-> R(sorted_edges[1]), depth |-> R(sorted_edges[Len(lengths)])]

lot_shape(aspect_ratio, rectangular) ==
    IF RLt(R(3), aspect_ratio) THEN "narrow"
    ELSE IF RLt(aspect_ratio, <<1, 2>>) THEN "wide"
    ELSE IF rectangular THEN "rectangular"
    ELSE "irregular"

parcel_profile(edges, lengths, dimensions) ==
    [edges |-> lengths,
     width |-> dimensions.width,
     depth |-> dimensions.depth,
     aspect_ratio |-> IF RLt(R(0), dimensions.width) THEN RDiv(dimensions.depth, dimensions.width) ELSE R(1),
     street_frontage |-> street_frontage(edges, lengths),
     longest_edge |-> longest_edge(lengths),
     is_rectangular |-> is_rectangular(edges),
     lot_shape |-> lot_shape(IF RLt(R(0), dimensions.width) THEN RDiv(dimensions.depth, dimensions.width) ELSE R(1),
                             is_rectangular(edges))]

\* the only test of the ring: `if len(coords) < 4: return None`
enough_coordinates(coords) == Len(coords) >= 4

analyze_detailed_geometry(geometry) ==
    IF geometry.type # "Polygon" THEN None
    ELSE IF ~enough_coordinates(geometry.coordinates) THEN None
    ELSE LET edges == extract_parcel_edges(geometry.coordinates)
             lengths == [i \in 1..Len(edges) |-> calculate_edge_length(edges[i])]
         IN  <<parcel_profile(edges, lengths, lot_width_and_depth(is_rectangular(edges), lengths))>>

\* the ring without its closing coordinate
open_ring(ring) == SubSeq(ring, 1, Len(ring) - 1)

short_rings == {<<>>, <<<<0, 0>>, <<41, 0>>>>, <<<<0, 0>>, <<41, 0>>, <<0, 0>>>>}

\* a ring whose second edge bears north-north-west (about 356 degrees) and
\* whose fourth edge bears south-south-east (about 176 degrees)
leaning_ring == <<<<3, 0>>, <<41, 0>>, <<38, 25>>, <<0, 25>>, <<3, 0>>>>

\* a ring whose edges all bear within 45 degrees of east or of west
flat_diamond_ring == <<<<0, 10>>, <<40, 0>>, <<90, 10>>, <<40, 20>>, <<0, 10>>>>

GeometryRings ==
    Rings \cup {open_ring(ring) : ring \in Rings} \cup short_rings
        \cup {right_trapezoid(10, 90, 90), right_trapezoid(90, 10, 10)}
        \cup {leaning_ring, flat_diamond_ring}

GeometryInit ==
    /\ \E ring \in GeometryRings, type \in {"Polygon", "Point"} :
          fn_in = [type |-> type, coordinates |-> ring]
    /\ fn_out = <<>>
    /\ IdleCalls
    /\ IdlePipeline
    /\ IdleProgress

AnalyzeDetailedGeometry ==
    /\ fn_in # <<>>
    /\ fn_out = <<>>
    /\ fn_out' = <<analyze_detailed_geometry(fn_in)>>
    /\ UNCHANGED fn_in
    /\ UNCHANGED CallVars
    /\ UNCHANGED PipelineVars
    /\ UNCHANGED ProgressVars

GeometryNext == AnalyzeDetailedGeometry

SpecGeometry == GeometryInit /\ [][GeometryNext]_vars

ClosedRing(coords) == Len(coords) >= 1 /\ coords[1] = coords[Len(coords)]

\* C14: analyze_detailed_geometry returns None for every ring of fewer than
\* 4 vertices and for every ring whose first and last vertices differ; it
\* returns a profile only for closed rings of at least 4 vertices.
C14_ProfileOnlyForClosedRings ==
    (fn_out # <<>> /\ fn_out[1] # None) =>
        /\ Len(fn_in.coordinates) >= 4
        /\ ClosedRing(fn_in.coordinates)

\* the part of C14 the code does implement: no profile below 4 coordinates
C14_NoProfileBelowFourCoordinates ==
    (fn_out # <<>> /\ fn_out[1] # None) => Len(fn_in.coordinates) >= 4

-----------------------------------------------------------------------------
(* Properties of the path without a usable parcel polygon, checked under   *)
(* Spec                                                                    *)

\* the request's polygon is missing or rejected by _process_parcel_geometry
NoUsableParcelPolygon ==
    \/ lot_data.site_data.parcel_geometry = <<>>
    \/ ~geometry_is_processed(lot_data.site_data.parcel_geometry[1])

\* the call passed the unit-size and courtyard validations
PassedValidation(k) == result[k].success # <<FALSE>>

\* C15: when the parcel polygon is missing or cannot be processed, a
\* generate_building_units call that reaches the layout step completes on
\* the rectangular fallback path and returns a success result, not an error.
C15_FallbackSucceeds ==
    \A k \in Calls :
        (NoUsableParcelPolygon /\ PassedValidation(k)) =>
            /\ Succeeded(k)
            /\ result[k].error = ""

-----------------------------------------------------------------------------
(* Concurrent generate_building_units calls on the generator that          *)
(* get_generator() shares between the request handlers.  A call computes   *)
(* its layout from its own arguments; what it shares with the other call   *)
(* is the attribute _current_lot_data and the output directory, where the  *)
(* file names are derived from the sanitized address.  The calls           *)
(* interleave at each attribute write and each file write.                 *)

Threads == {1, 2}
Addresses == {"2596 W 8th Ave", "3456 Main St"}

\* the files of one address in the output directory
no_directory == [a \in Addresses |-> no_files]

\* the file writes of one call in program order: the unit files, the
\* coach-house file, the combined file
file_writes(wrote) ==
    [i \in 1..Len(wrote.unit_files) |->
        [file |-> "unit", number |-> i, content |-> wrote.unit_files[i]]]
    \o (IF wrote.coach_house_file # <<>>
        THEN <<[file |-> "coach_house", number |-> 0, content |-> wrote.coach_house_file[1]]>>
        ELSE <<>>)
    \o (IF wrote.combined_file # <<>>
        THEN <<[file |-> "combined", number |-> 0, content |-> wrote.combined_file[1]]>>
        ELSE <<>>)

\* open(path, 'w') and the writes up to the close of one file
write_file(directory, w) ==
    IF w.file = "unit"
    THEN [directory EXCEPT !.unit_files =
             IF w.number <= Len(@) THEN [@ EXCEPT ![w.number] = w.content]
             ELSE Append(@, w.content)]
    ELSE IF w.file = "coach_house"
    THEN [directory EXCEPT !.coach_house_file = <<w.content>>]
    ELSE [directory EXCEPT !.combined_file = <<w.content>>]

\* whether the file that w writes holds w's content in the directory
holds(directory, w) ==
    IF w.file = "unit"
    THEN w.number <= Len(directory.unit_files) /\ directory.unit_files[w.number] = w.content
    ELSE IF w.file = "coach_house"
    THEN directory.coach_house_file = <<w.content>>
    ELSE directory.combined_file = <<w.content>>

\* candidate configurations: one, three or four units on two parcels
CandidateRequests ==
    {r \in Requests :
        /\ r.setbacks = [front |-> 60, side |-> 12, rear |-> 75]
        /\ r.site_data.lot_characteristics = no_lot_characteristics
        /\ r.site_data.parcel_geometry # <<>>
        /\ r.site_data.parcel_geometry[1].type = "Polygon"
        /\ r.site_area \in {45000, 15000}
        /\ r.multiple_dwelling.building_configuration = <<>>
        /\ r.multiple_dwelling.selected_units \in {1, 3, 4}
        /\ ExactSquareRoots(r)}

CandidateConfigs ==
    {c \in BuildingConfigs :
        /\ c.building_layout = "standard_row"
        /\ c.coverage = <<1, 2>>
        /\ c.coach_house_position = "rear"}

new_invocation(request, config, address) ==
    [lot_data |-> request, building_config |-> config, address |-> address,
     pc |-> "start", todo |-> <<>>, wrote |-> no_files, ret |-> <<>>,
     alone |-> <<>>, files_at_return |-> <<>>, lot_data_at_return |-> <<>>]

\* two requests for one address are about the same parcel
SameParcel(r1, r2) ==
    /\ r1.site_data = r2.site_data
    /\ r1.site_area = r2.site_area
    /\ r1.lot_width = r2.lot_width
    /\ r1.lot_depth = r2.lot_depth

ConcurrentInit ==
    /\ \E r1 \in CandidateRequests, r2 \in CandidateRequests,
          c1 \in CandidateConfigs, c2 \in CandidateConfigs, a2 \in Addresses :
          /\ SameParcel(r1, r2) <=> a2 = "2596 W 8th Ave"
          /\ invocations = <<new_invocation(r1, c1, "2596 W 8th Ave"),
                             new_invocation(r2, c2, a2)>>
    /\ files = no_directory
    /\ current_lot_data = <<>>
    /\ lot_data = <<>>
    /\ building_config = <<>>
    /\ result = <<>>
    /\ trace = <<>>
    /\ response = <<>>
    /\ IdleCalls
    /\ IdleFunctions
    /\ IdleProgress

ConcurrentIdleVars == <<lot_data, building_config, result, trace, response, ml_in, ml_out, el_in, el_out, fn_in, fn_out>>

\* the validations of one call; a failed validation returns at once
Validate(t) ==
    /\ invocations[t].pc = "start"
    /\ \E g \in {generate_building_units(invocations[t].lot_data, invocations[t].building_config)} :
          invocations' = [invocations EXCEPT
              ![t].pc = IF g.stored THEN "store" ELSE "done",
              ![t].building_config = g.building_config,
              ![t].wrote = g.wrote,
              ![t].todo = file_writes(g.wrote),
              ![t].alone = <<g.ret>>,
              ![t].ret = IF g.stored THEN <<>> ELSE <<g.ret>>,
              ![t].files_at_return = IF g.stored THEN <<>> ELSE <<files[invocations[t].address]>>,
              ![t].lot_data_at_return = IF g.stored THEN <<>> ELSE <<current_lot_data>>]
    /\ UNCHANGED <<files, current_lot_data>>
    /\ UNCHANGED ConcurrentIdleVars
    /\ UNCHANGED ProgressVars

\* self._current_lot_data = lot_data
StoreLotData(t) ==
    /\ invocations[t].pc = "store"
    /\ current_lot_data' = <<invocations[t].lot_data>>
    /\ invocations' = [invocations EXCEPT ![t].pc = "write"]
    /\ UNCHANGED files
    /\ UNCHANGED ConcurrentIdleVars
    /\ UNCHANGED ProgressVars

\* the next file of the layout step
WriteFile(t) ==
    /\ invocations[t].pc = "write"
    /\ invocations[t].todo # <<>>
    /\ files' = [files EXCEPT ![invocations[t].address] = write_file(@, Head(invocations[t].todo))]
    /\ invocations' = [invocations EXCEPT ![t].todo = Tail(@)]
    /\ UNCHANGED current_lot_data
    /\ UNCHANGED ConcurrentIdleVars
    /\ UNCHANGED ProgressVars

\* the call returns its result
Return(t) ==
    /\ invocations[t].pc = "write"
    /\ invocations[t].todo = <<>>
    /\ invocations' = [invocations EXCEPT
           ![t].pc = "done",
           ![t].ret = invocations[t].alone,
           ![t].files_at_return = <<files[invocations[t].address]>>,
           ![t].lot_data_at_return = <<current_lot_data>>]
    /\ UNCHANGED <<files, current_lot_data>>
    /\ UNCHANGED ConcurrentIdleVars
    /\ UNCHANGED ProgressVars

ConcurrentNext ==
    \E t \in Threads : Validate(t) \/ StoreLotData(t) \/ WriteFile(t) \/ Return(t)

SpecConcurrent == ConcurrentInit /\ [][ConcurrentNext]_vars

Returned(t) == invocations # <<>> /\ invocations[t].pc = "done"

\* at its return the call finds every file it wrote holding what it wrote
KeepsItsFiles(t) ==
    \A i \in 1..Len(file_writes(invocations[t].wrote)) :
        holds(invocations[t].files_at_return[1], file_writes(invocations[t].wrote)[i])

\* at its return the attribute the call wrote still holds its lot_data
KeepsItsLotData(t) ==
    invocations[t].wrote # no_files =>
        invocations[t].lot_data_at_return[1] = <<invocations[t].lot_data>>

\* C16 (output files): each of two concurrent calls ends with the output
\* files it would have produced alone.
C16_ConcurrentCallsKeepTheirFiles ==
    \A t \in Threads : Returned(t) => KeepsItsFiles(t)

\* C16: two generate_building_units calls running concurrently on the
\* shared generator, two candidate configurations for one address
\* included, each end with exactly the output files and the result they
\* would have produced alone, and no state written by one call is
\* overwritten by the other.
C16_ConcurrentCallsAreIsolated ==
    \A t \in Threads :
        Returned(t) =>
            /\ invocations[t].ret = invocations[t].alone
            /\ KeepsItsFiles(t)
            /\ KeepsItsLotData(t)

-----------------------------------------------------------------------------
(* The configuration after a downgrade, checked under SpecMultiplex        *)

\* the call reduced the unit count to floor(available_width / 3.0) > 0
DowngradedToViableUnits ==
    /\ ml_out # <<>>
    /\ RLt(ml_out[1].available_width, R(min_unit_width * RequestedUnits))
    /\ RFloorDiv(ml_out[1].available_width, R(min_unit_width)) > 0

\* C17: after a downgrade with floor(available_width / 3.0) > 0 the
\* returned configuration keeps the requested number of buildings and
\* spreads the reduced unit count evenly over them: units_per_building has
\* one entry per requested building, sums to the reduced count, and any two
\* entries differ by at most 1.
C17_DowngradeKeepsBuildingsEvenly ==
    DowngradedToViableUnits =>
        LET c == ml_out[1].building_configuration
            requested == ml_in.building_configuration.num_buildings
        IN  /\ c.num_buildings = requested
            /\ Len(c.units_per_building) = requested
            /\ SumSeq(c.units_per_building)
                   = RFloorDiv(ml_out[1].available_width, R(min_unit_width))
            /\ \A i, j \in 1..Len(c.units_per_building) :
                   Abs(c.units_per_building[i] - c.units_per_building[j]) <= 1

\* C17 for requests of one building, or of two buildings that keep at
\* least two units: the branches of the code that do redistribute
C17_OneOrTwoBuildings ==
    (/\ DowngradedToViableUnits
     /\ \/ ml_in.building_configuration.num_buildings = 1
        \/ /\ ml_in.building_configuration.num_buildings = 2
           /\ RFloorDiv(ml_out[1].available_width, R(min_unit_width)) >= 2) =>
        LET c == ml_out[1].building_configuration
        IN  /\ c.num_buildings = ml_in.building_configuration.num_buildings
            /\ Len(c.units_per_building) = c.num_buildings
            /\ \A i, j \in 1..Len(c.units_per_building) :
                   Abs(c.units_per_building[i] - c.units_per_building[j]) <= 1

-----------------------------------------------------------------------------
(* The separate layout, checked under Spec                                 *)

RequestedConfiguration == lot_data.multiple_dwelling.building_configuration

\* the request asks for N >= 2 separate units and names no building count
SeparateWithoutCount ==
    /\ RequestedConfiguration # <<>>
    /\ RequestedConfiguration[1].layout_type = "separate"
    /\ "num_buildings" \notin DOMAIN RequestedConfiguration[1]
    /\ SumSeq(RequestedConfiguration[1].units_per_building) >= 2

\* C18: for layout_type 'separate' with N >= 2 units and no explicit
\* building count, each unit is placed as its own building: N building
\* positions are produced and consecutive unit x positions differ by
\* unit_width + 2.4 m.
C18_SeparateUnitsAreBuildings ==
    \A k \in Calls :
        (SeparateWithoutCount /\ PassedValidation(k)) =>
            /\ LayoutRan(k)
            /\ Len(Locals(k).building_positions)
                   = SumSeq(RequestedConfiguration[1].units_per_building)
            /\ \A i \in 1..(Len(Locals(k).unit_positions) - 1) :
                   Locals(k).unit_positions[i + 1][1]
                       = RAdd(Locals(k).unit_positions[i][1],
                              RAdd(Locals(k).unit_width, R(between_buildings)))

\* the separate layout of a request that names one building: the units
\* adjoin in a single building, without separation
C18_OneBuildingAdjoins ==
    \A k \in Calls :
        (/\ RequestedConfiguration # <<>>
         /\ "num_buildings" \in DOMAIN RequestedConfiguration[1]
         /\ RequestedConfiguration[1].layout_type = "separate"
         /\ RequestedConfiguration[1].num_buildings = 1
         /\ LayoutRan(k)) =>
            /\ Len(Locals(k).building_positions) = 1
            /\ \A i \in 1..(Len(Locals(k).unit_positions) - 1) :
                   Locals(k).unit_positions[i + 1][1]
                       = RAdd(Locals(k).unit_positions[i][1], Locals(k).unit_width)

-----------------------------------------------------------------------------
(* _calculate_courtyard_layout and _calculate_l_shaped_layout (lengths in  *)
(* decimetres, exact rationals)                                            *)

courtyard_separation == 61
front_building_separation == 30
rear_building_separation == 30

\* front_units, rear_units of the courtyard layout
courtyard_distribution(selected_units) ==
    IF selected_units = 4 THEN <<2, 2>>
    ELSE IF selected_units = 5 THEN <<3, 2>>
    ELSE IF selected_units = 6 THEN <<3, 3>>
    ELSE <<selected_units \div 2, selected_units - (selected_units \div 2)>>

\* front_units, side_units of the L-shaped layout
l_shaped_distribution(selected_units) ==
    IF selected_units = 3 THEN <<2, 1>>
    ELSE IF selected_units = 4 THEN <<2, 2>>
    ELSE IF selected_units = 5 THEN <<3, 2>>
    ELSE <<selected_units \div 2, selected_units - (selected_units \div 2)>>

\* separation * (units - 1) if units > 1 else 0
separation_total(separation, units) == IF units > 1 THEN separation * (units - 1) ELSE 0

\* the positions appended by one for-loop: units placed from (x, z) in steps of (dx, dz)
placed_row(units, x, z, dx, dz) ==
    [i \in 1..units |-> <<RAdd(x, RMul(R(i - 1), dx)), RAdd(z, RMul(R(i - 1), dz))>>]

\* sum(unit_widths) / len(unit_widths) over the two rows
row_average(first_units, first_value, second_units, second_value) ==
    RDiv(RAdd(RMul(R(first_units), first_value), RMul(R(second_units), second_value)),
         R(first_units + second_units))

courtyard_rows(buildable_depth, front_units, rear_units, front_unit_width, rear_unit_width, side_setback, front_setback) ==
    LET front_unit_depth == RMul(R(buildable_depth), <<45, 100>>)
        rear_unit_depth  == RMul(R(buildable_depth), <<35, 100>>)
    IN  [avg_unit_width |-> row_average(front_units, front_unit_width, rear_units, rear_unit_width),
         avg_unit_depth |-> row_average(front_units, front_unit_depth, rear_units, rear_unit_depth),
         unit_positions |->
             placed_row(front_units, R(side_setback), R(front_setback),
                        RAdd(front_unit_width, R(front_building_separation)), R(0))
             \o placed_row(rear_units, R(side_setback),
                           RAdd(R(front_setback), RAdd(front_unit_depth, R(courtyard_separation))),
                           RAdd(rear_unit_width, R(rear_building_separation)), R(0))]

calculate_courtyard_layout(buildable_width, buildable_depth, selected_units, side_setback, front_setback) ==
    LET front_units == courtyard_distribution(selected_units)[1]
        rear_units  == courtyard_distribution(selected_units)[2]
    IN  courtyard_rows(buildable_depth, front_units, rear_units,
            RDiv(R(buildable_width - separation_total(front_building_separation, front_units)), R(front_units)),
            RDiv(R(buildable_width - separation_total(rear_building_separation, rear_units)), R(rear_units)),
            side_setback, front_setback)

l_shaped_rows(buildable_width, buildable_depth, front_units, side_units, front_unit_width, front_unit_depth, side_setback, front_setback) ==
    LET side_unit_width == RMul(R(buildable_width), <<4, 10>>)
        side_unit_depth ==
            RDiv(RSub(RSub(R(buildable_depth), front_unit_depth),
                      R(between_buildings + separation_total(between_buildings, side_units))),
                 R(side_units))
    IN  [avg_unit_width |-> row_average(front_units, front_unit_width, side_units, side_unit_width),
         avg_unit_depth |-> row_average(front_units, front_unit_depth, side_units, side_unit_depth),
         unit_positions |->
             placed_row(front_units, R(side_setback), R(front_setback),
                        RAdd(front_unit_width, R(between_buildings)), R(0))
             \o placed_row(side_units, RSub(R(side_setback + buildable_width), side_unit_width),
                           RAdd(R(front_setback), RAdd(front_unit_depth, R(between_buildings))),
                           R(0), RAdd(side_unit_depth, R(between_buildings)))]

calculate_l_shaped_layout(buildable_width, buildable_depth, selected_units, side_setback, front_setback) ==
    LET front_units == l_shaped_distribution(selected_units)[1]
        side_units  == l_shaped_distribution(selected_units)[2]
    IN  l_shaped_rows(buildable_width, buildable_depth, front_units, side_units,
            RDiv(R(buildable_width - separation_total(between_buildings, front_units)), R(front_units)),
            RMul(R(buildable_depth), <<6, 10>>),
            side_setback, front_setback)

MaxSelectedUnits == 7

LayoutWidths == {80, 126, 200}
LayoutDepths == {255, 335}
FrontSetbacks == {49, 60}

LayoutCalls ==
    [layout : {"courtyard", "l_shaped"}, buildable_width : LayoutWidths,
     buildable_depth : LayoutDepths, selected_units : 3..MaxSelectedUnits,
     side_setback : {12}, front_setback : FrontSetbacks]

\* the unit counts each layout is used for
LayoutInit ==
    /\ fn_in \in {c \in LayoutCalls : c.layout = "courtyard" => c.selected_units >= 4}
    /\ fn_out = <<>>
    /\ IdleCalls
    /\ IdlePipeline
    /\ IdleProgress

CalculateCourtyardLayout ==
    /\ fn_in # <<>>
    /\ fn_out = <<>>
    /\ fn_in.layout = "courtyard"
    /\ fn_out' = <<calculate_courtyard_layout(fn_in.buildable_width, fn_in.buildable_depth,
                       fn_in.selected_units, fn_in.side_setback, fn_in.front_setback)>>
    /\ UNCHANGED fn_in
    /\ UNCHANGED CallVars
    /\ UNCHANGED PipelineVars
    /\ UNCHANGED ProgressVars

CalculateLShapedLayout ==
    /\ fn_in # <<>>
    /\ fn_out = <<>>
    /\ fn_in.layout = "l_shaped"
    /\ fn_out' = <<calculate_l_shaped_layout(fn_in.buildable_width, fn_in.buildable_depth,
                       fn_in.selected_units, fn_in.side_setback, fn_in.front_setback)>>
    /\ UNCHANGED fn_in
    /\ UNCHANGED CallVars
    /\ UNCHANGED PipelineVars
    /\ UNCHANGED ProgressVars

LayoutNext == CalculateCourtyardLayout \/ CalculateLShapedLayout

SpecLayout == LayoutInit /\ [][LayoutNext]_vars

\* the units of the returned layout that stand on the front setback line
FrontRow ==
    Cardinality({i \in 1..Len(fn_out[1].unit_positions) :
                    fn_out[1].unit_positions[i][2] = R(fn_in.front_setback)})

\* the units of the returned layout behind the front row
OtherRow == Len(fn_out[1].unit_positions) - FrontRow

\* C19: for every unit count n the layouts are used for (n >= 4 courtyard,
\* n >= 3 L-shaped), the front row count plus the other row count equals n,
\* the two counts differ by at most 1, and the front row never receives fewer
\* units than the rear/side row.
C19_FrontRowNeverSmaller ==
    fn_out # <<>> =>
        /\ FrontRow + OtherRow = fn_in.selected_units
        /\ FrontRow - OtherRow \in {0, 1}

\* the split is complete and balanced for every unit count
C19_SplitIsBalanced ==
    fn_out # <<>> =>
        /\ FrontRow + OtherRow = fn_in.selected_units
        /\ FrontRow - OtherRow \in {-1, 0, 1}

\* up to six units the front row is never the smaller one
C19_FrontBiasedUpToSix ==
    (fn_out # <<>> /\ fn_in.selected_units <= 6) => FrontRow - OtherRow \in {0, 1}

-----------------------------------------------------------------------------
(* _calculate_setback_boundaries on coordinate lists (decimetres)          *)

\* the closed ring of a w x d rectangle as a list of coordinates
coordinate_list(w, d) ==
    [python_type |-> "list",
     coords |-> << <<R(0), R(0)>>, <<R(w), R(0)>>, <<R(w), R(d)>>, <<R(0), R(d)>>, <<R(0), R(0)>> >>]

ParcelWidths == {20, 30, 50, 150}
ParcelDepths == {50, 300}

BoundaryGeometries ==
    {coordinate_list(w, d) : w \in ParcelWidths, d \in ParcelDepths}
    \cup {dict_geometry, [python_type |-> "list", coords |-> << <<R(0), R(0)>>, <<R(50), R(0)>> >>]}

BoundarySetbacks == [front : {<<>>, <<60>>}, side : {<<>>, <<0>>, <<30>>}, rear : {<<>>, <<75>>}]

BoundariesInit ==
    /\ fn_in \in [geometry : BoundaryGeometries, setbacks : BoundarySetbacks]
    /\ fn_out = <<>>
    /\ IdleCalls
    /\ IdlePipeline
    /\ IdleProgress

\* the call, with the buffers it took on the way
CalculateSetbackBoundaries ==
    /\ fn_in # <<>>
    /\ fn_out = <<>>
    /\ fn_out' = <<[ret |-> calculate_setback_boundaries(fn_in.geometry, fn_in.setbacks),
                    buffered |-> IF fn_in.geometry.python_type = "list" /\ Len(fn_in.geometry.coords) >= 3
                                 THEN buffered_polygons(Polygon(fn_in.geometry.coords),
                                                        min_setback(fn_in.setbacks))
                                 ELSE <<>>]>>
    /\ UNCHANGED fn_in
    /\ UNCHANGED CallVars
    /\ UNCHANGED PipelineVars
    /\ UNCHANGED ProgressVars

BoundariesNext == CalculateSetbackBoundaries

SpecBoundaries == BoundariesInit /\ [][BoundariesNext]_vars

\* the call got as far as buffering a parcel polygon
Buffered == fn_out # <<>> /\ fn_out[1].buffered # <<>>

\* width, depth and area of the parcel rectangle
ParcelExtent == [width |-> fn_in.geometry.coords[3][1], depth |-> fn_in.geometry.coords[3][2]]

\* the rectangle left of the parcel after every side moved inward by d
InsetWidth(d) == RSub(ParcelExtent.width, RMul(R(2), d))
InsetDepth(d) == RSub(ParcelExtent.depth, RMul(R(2), d))
InsetIsEmpty(d) == RLe(InsetWidth(d), R(0)) \/ RLe(InsetDepth(d), R(0))
InsetTooSmall(d) == InsetIsEmpty(d) \/ RLt(RMul(InsetWidth(d), InsetDepth(d)), R(min_inset_area))

SmallestSetback ==
    CHOOSE m \in {setback_or_default(fn_in.setbacks.front, default_front_setback),
                  setback_or_default(fn_in.setbacks.side, default_side_setback),
                  setback_or_default(fn_in.setbacks.rear, default_rear_setback)} :
        /\ RLe(m, setback_or_default(fn_in.setbacks.front, default_front_setback))
        /\ RLe(m, setback_or_default(fn_in.setbacks.side, default_side_setback))
        /\ RLe(m, setback_or_default(fn_in.setbacks.rear, default_rear_setback))

FinalDistance == fn_out[1].buffered[Len(fn_out[1].buffered)].distance

\* C20: the parcel polygon is inset by min(front, side, rear); if and only if
\* that inset polygon is empty or has area below 10 m2 the inset is retried
\* exactly once with half that distance; a returned result has the width,
\* depth and area of the final inset polygon's bounding box and area, and its
\* area is never larger than the parcel area.
C20_InsetByMinimumRetriedOnce ==
    Buffered =>
        /\ fn_out[1].buffered[1].distance = SmallestSetback
        /\ Len(fn_out[1].buffered) \in {1, 2}
        /\ Len(fn_out[1].buffered) = 2 <=> InsetTooSmall(SmallestSetback)
        /\ Len(fn_out[1].buffered) = 2 =>
               fn_out[1].buffered[2].distance = RMul(SmallestSetback, <<1, 2>>)
        /\ fn_out[1].ret # <<>> =>
               /\ fn_out[1].ret[1].width = InsetWidth(FinalDistance)
               /\ fn_out[1].ret[1].depth = InsetDepth(FinalDistance)
               /\ fn_out[1].ret[1].area = RMul(InsetWidth(FinalDistance), InsetDepth(FinalDistance))
               /\ RLe(fn_out[1].ret[1].area, RMul(ParcelExtent.width, ParcelExtent.depth))

\* a first inset that is not empty but below 10 m2 is retried with half the
\* distance and the result of the retry is returned
C20_Witness ==
    /\ Buffered
    /\ Len(fn_out[1].buffered) = 2
    /\ ~fn_out[1].buffered[1].polygon.is_empty
    /\ fn_out[1].ret # <<>>

\* a retry that is empty as well returns no result
C20_EmptyRetryReturnsNone ==
    (Buffered /\ fn_out[1].buffered[Len(fn_out[1].buffered)].polygon.is_empty) => fn_out[1].ret = <<>>

-----------------------------------------------------------------------------
(* calculate_shape_regularity on its own (lengths in decimetres)           *)

QuadrilateralLengths == {200, 250, 300}

\* the lengths of a quadrilateral in ring order, and of a triangle
RegularityInit ==
    /\ fn_in \in [edge_lengths : [1..4 -> QuadrilateralLengths] \cup [1..3 -> QuadrilateralLengths]]
    /\ fn_out = <<>>
    /\ IdleCalls
    /\ IdlePipeline
    /\ IdleProgress

CalculateShapeRegularity ==
    /\ fn_in # <<>>
    /\ fn_out = <<>>
    /\ fn_out' = <<calculate_shape_regularity(fn_in.edge_lengths)>>
    /\ UNCHANGED fn_in
    /\ UNCHANGED CallVars
    /\ UNCHANGED PipelineVars
    /\ UNCHANGED ProgressVars

RegularityNext == CalculateShapeRegularity

SpecRegularity == RegularityInit /\ [][RegularityNext]_vars

\* the average similarity of the opposite pairs (e0, e2) and (e1, e3)
RingOrderRegularity ==
    clamp_unit(RDiv(RAdd(pair_similarity(fn_in.edge_lengths[1], fn_in.edge_lengths[3]),
                         pair_similarity(fn_in.edge_lengths[2], fn_in.edge_lengths[4])), R(2)))

\* C21: for every quadrilateral with edge lengths e0, e1, e2, e3 in ring
\* order, calculate_shape_regularity returns the average of the similarity
\* ratios of the opposite pairs (e0, e2) and (e1, e3), where the similarity
\* of a pair is 1 - |a - b| / max(a, b), clamped to [0, 1].
C21_RegularityOfOppositePairs ==
    (fn_out # <<>> /\ Len(fn_in.edge_lengths) = 4) => fn_out[1] = RingOrderRegularity

\* what the function returns: the average similarity of the two shortest
\* and of the two longest edges, wherever they lie on the ring
C21_RegularityOfSortedPairs ==
    (fn_out # <<>> /\ Len(fn_in.edge_lengths) = 4) =>
        \E i, j \in 1..4 :
            /\ i # j
            /\ \A k \in (1..4) \ {i, j} :
                   /\ fn_in.edge_lengths[i] <= fn_in.edge_lengths[k]
                   /\ fn_in.edge_lengths[j] <= fn_in.edge_lengths[k]
            /\ \E k, l \in (1..4) \ {i, j} :
                   /\ k # l
                   /\ fn_out[1] = clamp_unit(RDiv(RAdd(
                          pair_similarity(fn_in.edge_lengths[i], fn_in.edge_lengths[j]),
                          pair_similarity(fn_in.edge_lengths[k], fn_in.edge_lengths[l])), R(2)))

\* the two agree whenever opposite edges are equal
C21_AgreeOnParallelograms ==
    (/\ fn_out # <<>>
     /\ Len(fn_in.edge_lengths) = 4
     /\ fn_in.edge_lengths[1] = fn_in.edge_lengths[3]
     /\ fn_in.edge_lengths[2] = fn_in.edge_lengths[4]) => fn_out[1] = RingOrderRegularity

-----------------------------------------------------------------------------
(* The lot shape classification, checked under SpecGeometry                *)

LotShapes == {"narrow", "wide", "rectangular", "irregular"}

\* the valid parcels among the inputs: closed rings of at least 4 coordinates
ValidParcels == {ring \in GeometryRings : Len(ring) >= 4 /\ ClosedRing(ring)}

\* some valid parcel is classified as the shape
ShapeReturned(shape) ==
    \E ring \in ValidParcels :
        analyze_detailed_geometry([type |-> "Polygon", coordinates |-> ring])[1].lot_shape = shape

\* the call returned a profile of a valid parcel with edges of positive length
ProfileReturned ==
    /\ fn_out # <<>>
    /\ fn_out[1] # None
    /\ fn_in.coordinates \in ValidParcels
    /\ RLt(R(0), fn_out[1][1].width)

\* the classification follows the priority narrow, wide, rectangular, irregular
ClassifiedByPriority(profile) ==
    /\ profile.aspect_ratio = RDiv(profile.depth, profile.width)
    /\ profile.lot_shape =
           IF RLt(R(3), profile.aspect_ratio) THEN "narrow"
           ELSE IF RLt(profile.aspect_ratio, <<1, 2>>) THEN "wide"
           ELSE IF profile.is_rectangular THEN "rectangular"
           ELSE "irregular"
    /\ ~profile.is_rectangular =>
           /\ \E i \in 1..Len(profile.edges) :
                  /\ profile.width = R(profile.edges[i])
                  /\ \A j \in 1..Len(profile.edges) : profile.edges[i] <= profile.edges[j]
           /\ profile.depth = R(SeqMax(profile.edges))

\* C22: lot_shape is classified from aspect_ratio = depth / width in the
\* priority 'narrow' when > 3, 'wide' when < 0.5, otherwise 'rectangular'
\* when is_rectangular, else 'irregular', with width the shortest and depth
\* the longest edge for irregular lots; and each of the four classifications
\* is returned for some valid parcel.
C22_FourShapesByPriority ==
    ProfileReturned =>
        /\ ClassifiedByPriority(fn_out[1][1])
        /\ \A shape \in LotShapes : ShapeReturned(shape)

\* the priority alone holds
C22_ShapeByPriority == ProfileReturned => ClassifiedByPriority(fn_out[1][1])

\* width never exceeds depth, so the aspect ratio is at least 1 and no
\* parcel is 'wide'
C22_NeverWide ==
    (fn_out # <<>> /\ fn_out[1] # None) =>
        /\ RLe(fn_out[1][1].width, fn_out[1][1].depth)
        /\ RLe(R(1), fn_out[1][1].aspect_ratio)
        /\ fn_out[1][1].lot_shape # "wide"

\* the three other shapes are returned
C22_OtherShapesReturned ==
    ProfileReturned => \A shape \in LotShapes \ {"wide"} : ShapeReturned(shape)

-----------------------------------------------------------------------------
(* The street frontage, checked under SpecGeometry                         *)

\* the bearing of the edge is within 45 degrees of 0 or of 180, measured on
\* the circle: north or south outweighs east and west
WithinFortyFiveOfNorthOrSouth(edge) ==
    \/ edge[2] = edge[1]
    \/ lon_unit * Abs(edge[2][1] - edge[1][1]) < lat_unit * Abs(edge[2][2] - edge[1][2])

ParcelEdges == extract_parcel_edges(fn_in.coordinates)

\* C23: the street frontage is the first edge in ring order whose bearing
\* (0-360 degrees) is within 45 degrees of 0 or of 180, measured on the
\* circle so that bearings in (315, 360) count as within 45 degrees of 0; it
\* is the longest edge exactly when no edge qualifies.
C23_FrontageIsFirstQualifyingEdge ==
    ProfileReturned =>
        IF \E i \in 1..Len(ParcelEdges) : WithinFortyFiveOfNorthOrSouth(ParcelEdges[i])
        THEN /\ WithinFortyFiveOfNorthOrSouth(ParcelEdges[fn_out[1][1].street_frontage])
             /\ \A j \in 1..(fn_out[1][1].street_frontage - 1) :
                    ~WithinFortyFiveOfNorthOrSouth(ParcelEdges[j])
        ELSE fn_out[1][1].street_frontage = fn_out[1][1].longest_edge

\* the frontage the function returns is the first edge bearing in [0, 45) or
\* (135, 225), else the longest edge
C23_FrontageSkipsNorthWest ==
    ProfileReturned =>
        IF \E i \in 1..Len(ParcelEdges) : bearing_qualifies(ParcelEdges[i])
        THEN /\ bearing_qualifies(ParcelEdges[fn_out[1][1].street_frontage])
             /\ \A j \in 1..(fn_out[1][1].street_frontage - 1) : ~bearing_qualifies(ParcelEdges[j])
        ELSE fn_out[1][1].street_frontage = fn_out[1][1].longest_edge

\* a parcel without any qualifying edge gets its longest edge
C23_LongestEdgeReached ==
    /\ ProfileReturned
    /\ \A i \in 1..Len(ParcelEdges) : ~WithinFortyFiveOfNorthOrSouth(ParcelEdges[i])
    /\ fn_out[1][1].street_frontage = fn_out[1][1].longest_edge

-----------------------------------------------------------------------------
(* The answer of /api/generate-building-units, checked under Spec          *)

\* the main units the generator laid out and wrote in call k
LaidOutUnits(k) == Len(trace[k].wrote.unit_files)

\* the handler passes no zoning_data to the generator, and the request's
\* building configuration, if any, distributes exactly the selected units
ConsistentRequest ==
    /\ lot_data.zoning_data.multiple_dwelling.building_configuration = <<>>
    /\ RequestedConfiguration # <<>> =>
           SumSeq(RequestedConfiguration[1].units_per_building)
               = lot_data.multiple_dwelling.selected_units

\* the planner reduced the unit count of call k
Downgraded(k) ==
    /\ ConsistentRequest
    /\ LayoutRan(k)
    /\ Locals(k).unit_width_violation
    /\ LaidOutUnits(k) < lot_data.multiple_dwelling.selected_units

\* C24: the answer reports the units actually laid out: when the planner
\* downgrades the configuration, total_units and the list of unit files match
\* the reduced unit count written by the generator, not the requested
\* selected_units.
C24_ResponseReportsLaidOutUnits ==
    \A k \in Calls :
        (Downgraded(k) /\ response[k].status = 200) =>
            /\ response[k].total_units = <<LaidOutUnits(k)>>
            /\ response[k].unit_files = 1..LaidOutUnits(k)

\* what the handler answers instead: total_units is the requested
\* selected_units whatever was laid out
C24_ResponseEchoesRequest ==
    \A k \in Calls :
        response[k].status = 200 =>
            /\ response[k].total_units = <<lot_data.multiple_dwelling.selected_units>>
            /\ response[k].unit_files \subseteq 1..lot_data.multiple_dwelling.selected_units

\* in a first call the listed unit files are those the generator wrote
C24_FirstCallListsWrittenFiles ==
    (Len(result) >= 1 /\ Downgraded(1) /\ response[1].status = 200) =>
        response[1].unit_files = 1..LaidOutUnits(1)

-----------------------------------------------------------------------------
(* The separate layout with a coach house, checked under Spec              *)

\* call k laid out one building of separate units and includes a coach house
SeparateWithCoachHouse(k) ==
    /\ LayoutRan(k)
    /\ Locals(k).layout_type = "separate"
    /\ Len(Locals(k).building_positions) = 1
    /\ Locals(k).include_coach_house

\* C25: with layout_type 'separate', one building and include_coach_house =
\* true, generation always completes: every index used to read unit_positions
\* is within its bounds, the number of main-unit solids written equals the
\* number of laid-out main units (the coach house is not counted as a main
\* unit), and the combined building's width is unit_width x the number of
\* main units.
C25_SeparateWithCoachHouseCompletes ==
    \A k \in Calls :
        SeparateWithCoachHouse(k) =>
            /\ Succeeded(k)
            /\ result[k].error # "IndexError"
            /\ Len(trace[k].wrote.unit_files) = Locals(k).main_units
            /\ trace[k].wrote.coach_house_file # <<>>
            /\ trace[k].wrote.combined_file # <<>>
            /\ trace[k].wrote.combined_file[1].complete
            /\ SumSeq(trace[k].wrote.combined_file[1].units_per_building) = Locals(k).main_units

\* what happens instead: the main units are written, then the read of
\* unit_positions one past its end raises IndexError; neither the coach
\* house nor the combined file is written
C25_IndexErrorAfterMainUnits ==
    \A k \in Calls :
        SeparateWithCoachHouse(k) =>
            /\ result[k].error = "IndexError"
            /\ Len(trace[k].wrote.unit_files) = Locals(k).main_units
            /\ Len(Locals(k).unit_positions) = Locals(k).main_units
            /\ trace[k].wrote.coach_house_file = <<>>
            /\ trace[k].wrote.combined_file = <<>>

\* without the coach house the same layout completes
C25_CompletesWithoutCoachHouse ==
    \A k \in Calls :
        (/\ LayoutRan(k)
         /\ Locals(k).layout_type = "separate"
         /\ ~Locals(k).include_coach_house) =>
            /\ Succeeded(k)
            /\ Len(trace[k].wrote.unit_files) = Locals(k).main_units

-----------------------------------------------------------------------------
(* The coach house among the main units, checked under Spec                *)

\* call k wrote a coach house next to its main units
CoachHousePlaced(k) ==
    /\ LayoutRan(k)
    /\ trace[k].wrote.coach_house_file # <<>>
    /\ Len(trace[k].wrote.unit_files) >= 1

\* the interiors of two rectangles [x, x + width] x [z, z + depth] meet
Overlap(a, b) ==
    /\ RLt(a.x, RAdd(b.x, b.unit_width))
    /\ RLt(b.x, RAdd(a.x, a.unit_width))
    /\ RLt(a.z, RAdd(b.z, b.unit_depth))
    /\ RLt(b.z, RAdd(a.z, a.unit_depth))

\* the rectangle lies inside the buildable-area bounding box of call k
InsideBuildableBox(k, a) ==
    /\ RLe(Locals(k).buildable_min_x, a.x)
    /\ RLe(RAdd(a.x, a.unit_width), Locals(k).buildable_max_x)
    /\ RLe(Locals(k).buildable_min_y, a.z)
    /\ RLe(RAdd(a.z, a.unit_depth), Locals(k).buildable_max_y)

\* C26: whenever a coach house is placed together with main units, for every
\* position option the coach-house rectangle lies inside the buildable-area
\* bounding box and does not overlap the footprint rectangle of any main
\* unit or building of the same layout.
C26_CoachHouseClearOfMainUnits ==
    \A k \in Calls :
        CoachHousePlaced(k) =>
            /\ InsideBuildableBox(k, trace[k].wrote.coach_house_file[1])
            /\ \A i \in 1..Len(trace[k].wrote.unit_files) :
                   ~Overlap(trace[k].wrote.coach_house_file[1], trace[k].wrote.unit_files[i])

\* the coach house stays inside the box whenever the buildable width and
\* depth it is sized from (2.5 x its width, 2 x its depth) fit the box
C26_CoachHouseInsideFittingBox ==
    \A k \in Calls :
        (/\ CoachHousePlaced(k)
         /\ RLe(RMul(<<5, 2>>, trace[k].wrote.coach_house_file[1].unit_width),
                RSub(Locals(k).buildable_max_x, Locals(k).buildable_min_x))
         /\ RLe(RMul(R(2), trace[k].wrote.coach_house_file[1].unit_depth),
                RSub(Locals(k).buildable_max_y, Locals(k).buildable_min_y))) =>
            InsideBuildableBox(k, trace[k].wrote.coach_house_file[1])

-----------------------------------------------------------------------------
(* The branch of the layout step of _create_building_units_from_geometry   *)

MaxNumBuildings == 3

RequestedLayouts == {"standard_row", "courtyard", "l_shaped", "u_shaped"}

\* a configuration of n buildings of one unit each; four units in no building
\* for an explicit count of 0
configuration_of(n, layout_type) ==
    [num_buildings |-> n,
     units_per_building |-> IF n = 0 THEN <<4>> ELSE [i \in 1..n |-> 1],
     layout_type |-> layout_type]

BranchInit ==
    /\ fn_in \in [building_configuration :
                      {configuration_of(n, t) : n \in 0..MaxNumBuildings, t \in {"multiplex", "separate"}},
                  building_layout : RequestedLayouts,
                  selected_units : {3, 4},
                  lot_depth : {R(300), R(335)}]
    /\ fn_out = <<>>
    /\ IdleCalls
    /\ IdlePipeline
    /\ IdleProgress

SelectLayoutBranch ==
    /\ fn_in # <<>>
    /\ fn_out = <<>>
    /\ fn_out' = <<layout_branch(fn_in.building_configuration, fn_in.building_layout,
                                 fn_in.selected_units, fn_in.lot_depth)>>
    /\ UNCHANGED fn_in
    /\ UNCHANGED CallVars
    /\ UNCHANGED PipelineVars
    /\ UNCHANGED ProgressVars

BranchNext == SelectLayoutBranch

SpecBranch == BranchInit /\ [][BranchNext]_vars

ShapedLayouts == {"courtyard", "l_shaped", "u_shaped"}

\* C27: for every building configuration with num_buildings >= 1 the layout
\* step never calls _calculate_courtyard_layout, _calculate_l_shaped_layout
\* or _calculate_u_shaped_layout (more than one building forces the multiplex
\* branch, one building takes the multiplex or the single-building branch),
\* so the requested building_layout never changes which branch computes the
\* unit positions and dimensions.
C27_ShapedLayoutsNeverCalled ==
    (fn_out # <<>> /\ fn_in.building_configuration.num_buildings >= 1) =>
        /\ fn_out[1] \notin ShapedLayouts
        /\ fn_in.building_configuration.num_buildings > 1 => fn_out[1] = "multiplex"
        /\ fn_in.building_configuration.num_buildings = 1 =>
               fn_out[1] \in {"multiplex", "single_building"}
        /\ \A other \in RequestedLayouts :
               layout_branch(fn_in.building_configuration, other,
                             fn_in.selected_units, fn_in.lot_depth) = fn_out[1]

\* three separate buildings with a courtyard requested on a lot that
\* supports one are laid out by the multiplex planner
C27_Witness ==
    /\ fn_out = <<"multiplex">>
    /\ fn_in.building_configuration.num_buildings = 3
    /\ fn_in.building_configuration.layout_type = "separate"
    /\ courtyard_configuration(fn_in.building_layout, fn_in.selected_units, fn_in.lot_depth)

\* only an explicit building count of 0 reaches the shaped layouts
C27_ShapedLayoutReached ==
    /\ fn_out # <<>>
    /\ fn_out[1] \in ShapedLayouts
    /\ fn_in.building_configuration.num_buildings = 0

\* under Spec: the first call, repeated with any other building_layout,
\* lays out the same unit positions and dimensions whenever both reach the
\* layout step
C27_LayoutIgnoresBuildingLayout ==
    (Len(result) >= 1 /\ LayoutRan(1)) =>
        \A layout \in BuildingLayouts :
            \A g \in {generate_building_units(lot_data,
                          [trace[1].building_config EXCEPT !.building_layout = layout])} :
                g.locals # <<>> =>
                    /\ g.locals[1].unit_positions = Locals(1).unit_positions
                    /\ g.locals[1].building_positions = Locals(1).building_positions
                    /\ g.locals[1].unit_width = Locals(1).unit_width
                    /\ g.locals[1].unit_depth = Locals(1).unit_depth

-----------------------------------------------------------------------------
(* The courtyard layout inside the buildable rectangle, under SpecLayout   *)

CourtyardReturned == fn_out # <<>> /\ fn_in.layout = "courtyard"

\* the unit positions of the front row and of the rear row
RowPositions(front) ==
    {i \in 1..Len(fn_out[1].unit_positions) :
        (fn_out[1].unit_positions[i][2] = R(fn_in.front_setback)) = front}

\* the unit width of a row of at least two units: the step between two
\* units less the 3.0 m between them
RowUnitWidth(row) ==
    LET first == CHOOSE i \in row : \A j \in row : i <= j
    IN  RSub(RSub(fn_out[1].unit_positions[first + 1][1], fn_out[1].unit_positions[first][1]),
             R(front_building_separation))

\* C28: for buildable width W > 0, buildable depth D > 0 and n >= 4 units,
\* every returned unit rectangle lies inside the buildable rectangle: each
\* row's unit width is positive, the row ends at or before W, and the rear
\* row's far edge 0.45 D + 6.1 + 0.35 D is at most D.
C28_CourtyardInsideBuildableRectangle ==
    CourtyardReturned =>
        /\ \A front \in BOOLEAN :
               /\ RLt(R(0), RowUnitWidth(RowPositions(front)))
               /\ \A i \in RowPositions(front) :
                      /\ RLe(R(fn_in.side_setback), fn_out[1].unit_positions[i][1])
                      /\ RLe(RAdd(fn_out[1].unit_positions[i][1], RowUnitWidth(RowPositions(front))),
                             R(fn_in.side_setback + fn_in.buildable_width))
        /\ \A i \in RowPositions(FALSE) :
               RLe(RAdd(fn_out[1].unit_positions[i][2], RMul(R(fn_in.buildable_depth), <<35, 100>>)),
                   R(fn_in.front_setback + fn_in.buildable_depth))

\* the rear row stays inside exactly from a buildable depth of 30.5 m on,
\* and a row's units have a positive width once the buildable width exceeds
\* the separations of the row
C28_InsideFromThirtyMetresAndAHalf ==
    CourtyardReturned =>
        /\ (\A i \in RowPositions(FALSE) :
               RLe(RAdd(fn_out[1].unit_positions[i][2], RMul(R(fn_in.buildable_depth), <<35, 100>>)),
                   R(fn_in.front_setback + fn_in.buildable_depth)))
               <=> fn_in.buildable_depth >= 305
        /\ \A front \in BOOLEAN :
               RLt(R(0), RowUnitWidth(RowPositions(front)))
                   <=> fn_in.buildable_width
                           > front_building_separation * (Cardinality(RowPositions(front)) - 1)
-----------------------------------------------------------------------------
(* Generation progress: the process-wide generation_progress dict, the     *)
(* handlers that write it and the progress streams that read it            *)

MaxStreams == 2

TaskIds == {"task_a", "task_b"}
StreamIds == 1..MaxStreams

\* the statuses a handler passes with its last update_generation_progress call
FinalStatuses == {"completed", "failed", "error"}

\* the statuses on which generation_progress_stream stops streaming
stream_ends_on == {"completed", "failed"}

\* generation_progress[task_id] = {'status': status, ...}
update_generation_progress(progress, task_id, status) ==
    [progress EXCEPT ![task_id] = <<[status |-> status]>>]

\* the keepalive event of a stream whose task id is not in the dict
keepalive == [status |-> "waiting"]

ProgressInit ==
    /\ generation_progress = [t \in TaskIds |-> <<>>]
    /\ tasks = [t \in TaskIds |-> "received"]
    /\ streams = [s \in StreamIds |-> [task_id |-> <<>>, pc |-> "unopened", emitted |-> <<>>]]
    /\ IdleCalls
    /\ IdlePipeline
    /\ IdleFunctions

\* generate_local: update_generation_progress(task_id, 'starting', ...)
InitializeProgress(t) ==
    /\ tasks[t] = "received"
    /\ generation_progress' = update_generation_progress(generation_progress, t, "starting")
    /\ tasks' = [tasks EXCEPT ![t] = "starting"]
    /\ UNCHANGED streams
    /\ UNCHANGED <<CallVars, PipelineVars, FunctionVars>>

\* generate_local: update_generation_progress(task_id, 'processing', ...)
ReportProcessing(t) ==
    /\ tasks[t] = "starting"
    /\ generation_progress' = update_generation_progress(generation_progress, t, "processing")
    /\ tasks' = [tasks EXCEPT ![t] = "processing"]
    /\ UNCHANGED streams
    /\ UNCHANGED <<CallVars, PipelineVars, FunctionVars>>

\* generate_local: its last update, with status completed, failed or error
ReportFinal(t) ==
    /\ tasks[t] = "processing"
    /\ \E status \in FinalStatuses :
          /\ generation_progress' = update_generation_progress(generation_progress, t, status)
          /\ tasks' = [tasks EXCEPT ![t] = status]
    /\ UNCHANGED streams
    /\ UNCHANGED <<CallVars, PipelineVars, FunctionVars>>

\* GET /api/generation-progress/<task_id>: a client opens a stream
OpenStream(s) ==
    /\ streams[s].pc = "unopened"
    /\ \E t \in TaskIds :
          streams' = [streams EXCEPT ![s] = [task_id |-> <<t>>, pc |-> "polling", emitted |-> <<>>]]
    /\ UNCHANGED <<generation_progress, tasks>>
    /\ UNCHANGED <<CallVars, PipelineVars, FunctionVars>>

\* generate(): `if task_id in generation_progress`, else the keepalive
LookUp(s) ==
    /\ streams[s].pc = "polling"
    /\ streams' = [streams EXCEPT ![s] =
                      IF generation_progress[streams[s].task_id[1]] # <<>>
                      THEN [@ EXCEPT !.pc = "found"]
                      ELSE [@ EXCEPT !.pc = "sleeping", !.emitted = <<keepalive>>]]
    /\ UNCHANGED <<generation_progress, tasks>>
    /\ UNCHANGED <<CallVars, PipelineVars, FunctionVars>>

\* generate(): progress_data = generation_progress[task_id] (a KeyError when
\* another stream deleted the entry meanwhile), the yield, and on a status of
\* stream_ends_on the deletion of the entry and the break
Emit(s) ==
    /\ streams[s].pc = "found"
    /\ \E entry \in {generation_progress[streams[s].task_id[1]]} :
          IF entry = <<>>
          THEN /\ streams' = [streams EXCEPT ![s].pc = "key_error"]
               /\ UNCHANGED generation_progress
          ELSE IF entry[1].status \in stream_ends_on
          THEN /\ streams' = [streams EXCEPT ![s].pc = "ended", ![s].emitted = entry]
               /\ generation_progress' = [generation_progress EXCEPT ![streams[s].task_id[1]] = <<>>]
          ELSE /\ streams' = [streams EXCEPT ![s].pc = "sleeping", ![s].emitted = entry]
               /\ UNCHANGED generation_progress
    /\ UNCHANGED tasks
    /\ UNCHANGED <<CallVars, PipelineVars, FunctionVars>>

\* generate(): time.sleep(0.5), then the next round of the loop
Sleep(s) ==
    /\ streams[s].pc = "sleeping"
    /\ streams' = [streams EXCEPT ![s].pc = "polling"]
    /\ UNCHANGED <<generation_progress, tasks>>
    /\ UNCHANGED <<CallVars, PipelineVars, FunctionVars>>

ProgressNext ==
    \/ \E t \in TaskIds : InitializeProgress(t) \/ ReportProcessing(t) \/ ReportFinal(t)
    \/ \E s \in StreamIds : OpenStream(s) \/ LookUp(s) \/ Emit(s) \/ Sleep(s)

SpecProgress == ProgressInit /\ [][ProgressNext]_vars

\* a handler that has started runs to its last update, and every open stream
\* keeps taking the steps of its loop (each request runs in a thread of its own)
ProgressFairness ==
    /\ \A t \in TaskIds : WF_vars(ReportProcessing(t)) /\ WF_vars(ReportFinal(t))
    /\ \A s \in StreamIds : WF_vars(LookUp(s)) /\ WF_vars(Emit(s)) /\ WF_vars(Sleep(s))

SpecProgressFair == SpecProgress /\ ProgressFairness

\* the handler of task t has issued its final update
Ended(t) == tasks[t] \in FinalStatuses

\* stream s was opened for task t
OpenedFor(s, t) == streams[s].task_id = <<t>>

\* stream s has emitted the final status of task t and terminated
EmittedFinalAndTerminated(s, t) ==
    /\ streams[s].pc = "ended"
    /\ streams[s].emitted = <<[status |-> tasks[t]]>>

\* C29: for every task whose handler issues a final update (completed, failed
\* or error), every stream opened for that task id, whenever it is opened and
\* however many streams are open for the id, eventually emits that final
\* status and terminates.
C29_EveryStreamEmitsFinalStatusAndEnds ==
    \A s \in StreamIds : \A t \in TaskIds :
       (OpenedFor(s, t) /\ Ended(t)) ~> EmittedFinalAndTerminated(s, t)

\* what the code does ensure: a stream ends only on an entry whose status is
\* completed or failed, and it removes that entry as it ends; a stream that
\* sends the keepalive has found no entry for its task id
C29_StreamsEndOnCompletedOrFailed ==
    \A s \in StreamIds :
       /\ streams[s].pc = "ended" => streams[s].emitted[1].status \in stream_ends_on
       /\ streams[s].pc = "key_error" => generation_progress[streams[s].task_id[1]] = <<>>

\* a completed or failed entry is removed once some stream is looking for it
C29_FinalEntryIsConsumed ==
    \A t \in TaskIds :
       (/\ generation_progress[t] # <<>>
        /\ generation_progress[t][1].status \in stream_ends_on
        /\ \E s \in StreamIds : OpenedFor(s, t) /\ streams[s].pc \in {"polling", "found", "sleeping"})
          ~> (generation_progress[t] = <<>>)

\* a task has ended with a status and a stream opened for it
C29_Witness ==
    \E s \in StreamIds : \E t \in TaskIds :
       /\ OpenedFor(s, t) /\ Ended(t)
       /\ streams[s].pc = "ended"
-----------------------------------------------------------------------------
(* The lot type reported by analyze_corner_lot and by                      *)
(* analyze_development_conditions (src/backend/app.py)                     *)

\* extract_parcel_edges on a geometry dict: no edges for a missing geometry
\* (the TypeError is caught) and for a geometry that is not a Polygon
parcel_edges_of(geometry) ==
    IF geometry = None THEN <<>>
    ELSE IF geometry[1].type # "Polygon" THEN <<>>
    ELSE extract_parcel_edges(geometry[1].coordinates)

\* [calculate_edge_length(edge) for edge in parcel_edges]
edge_lengths_of(parcel_edges) ==
    [i \in 1..Len(parcel_edges) |-> calculate_edge_length(parcel_edges[i])]

\* detect_corner_lot_enhanced(parcel_edges, edge_lengths, geometry)
detected_lot_type(parcel_edges) ==
    detect_corner_lot_enhanced(<<parcel_edges>>,
                               [i \in 1..Len(parcel_edges) |-> <<edge_lengths_of(parcel_edges)[i]>>])

\* faulty variant of conservative_lot_type: the detection is reported
reported_as_detected(detected_type) ==
    IF detected_type = None THEN "standard" ELSE detected_type[1]

\* analyze_development_conditions: lot_type = 'standard' "regardless of detection"
conservative_lot_type(detected_type) == "standard"

narrow_lot_width == 150

\* min(edge_lengths)
SeqMin(s) == CHOOSE x \in {s[i] : i \in 1..Len(s)} :
                 \A j \in 1..Len(s) : x <= s[j]

corner_lot_constraint == "Corner lot - potential for multiple access points"
narrow_lot_constraint == "Narrow lot - may limit building width"

\* the JSON body and status of POST /api/analyze-corner-lot
analyze_corner_lot(geometry) ==
    IF geometry = None
    THEN [function |-> "analyze_corner_lot", status |-> 400,
          lot_type |-> None, detected_type |-> None, edge_count |-> None]
    ELSE IF parcel_edges_of(geometry) = <<>>
    THEN [function |-> "analyze_corner_lot", status |-> 200,
          lot_type |-> <<"standard">>, detected_type |-> None, edge_count |-> None]
    ELSE [function |-> "analyze_corner_lot", status |-> 200,
          lot_type |-> <<"standard">>,
          detected_type |-> <<detected_lot_type(parcel_edges_of(geometry))>>,
          edge_count |-> <<Len(parcel_edges_of(geometry))>>]

\* the conditions dict once the edges are known
development_conditions(parcel_edges, edge_lengths, lot_type) ==
    [function |-> "analyze_development_conditions",
     method |-> "development_conditions_analysis",
     lot_type |-> <<lot_type>>,
     lot_width |-> <<SeqMin(edge_lengths)>>,
     lot_depth |-> <<SeqMax(edge_lengths)>>,
     edge_count |-> <<Len(parcel_edges)>>,
     corner_lot_advantages |-> (lot_type = "corner"),
     development_constraints |->
         (IF lot_type = "corner" THEN <<corner_lot_constraint>> ELSE <<>>)
         \o (IF SeqMin(edge_lengths) < narrow_lot_width THEN <<narrow_lot_constraint>> ELSE <<>>)]

analyze_development_conditions(geometry) ==
    IF parcel_edges_of(geometry) = <<>>
    THEN [function |-> "analyze_development_conditions", method |-> "no_parcel_edges",
          lot_type |-> None, lot_width |-> None, lot_depth |-> None, edge_count |-> None,
          corner_lot_advantages |-> FALSE, development_constraints |-> <<>>]
    ELSE development_conditions(
             parcel_edges_of(geometry),
             edge_lengths_of(parcel_edges_of(geometry)),
             conservative_lot_type(IF Len(parcel_edges_of(geometry)) >= 4
                                   THEN <<detected_lot_type(parcel_edges_of(geometry))>>
                                   ELSE None))

\* the geometries of the requests: the parcel rings as Polygons, a Polygon
\* without vertices, a Point, and a request without geometry
RequestGeometries ==
    {<<[type |-> "Polygon", coordinates |-> ring]>> : ring \in Rings \cup {<<>>}}
        \cup {<<[type |-> "Point", coordinates |-> <<0, 0>>]>>, None}

LotTypeInit ==
    /\ fn_in \in [geometry : RequestGeometries]
    /\ fn_out = <<>>
    /\ IdleCalls
    /\ IdlePipeline
    /\ IdleProgress

AnalyzeCornerLot ==
    /\ fn_in # <<>>
    /\ fn_out = <<>>
    /\ fn_out' = <<analyze_corner_lot(fn_in.geometry)>>
    /\ UNCHANGED fn_in
    /\ UNCHANGED CallVars
    /\ UNCHANGED PipelineVars
    /\ UNCHANGED ProgressVars

AnalyzeDevelopmentConditions ==
    /\ fn_in # <<>>
    /\ fn_out = <<>>
    /\ fn_out' = <<analyze_development_conditions(fn_in.geometry)>>
    /\ UNCHANGED fn_in
    /\ UNCHANGED CallVars
    /\ UNCHANGED PipelineVars
    /\ UNCHANGED ProgressVars

LotTypeNext == AnalyzeCornerLot \/ AnalyzeDevelopmentConditions

SpecLotType == LotTypeInit /\ [][LotTypeNext]_vars

\* the classifier calls the request's parcel a corner lot
DetectedCorner ==
    /\ Len(parcel_edges_of(fn_in.geometry)) >= 4
    /\ detected_lot_type(parcel_edges_of(fn_in.geometry)) = "corner"

\* the answer carries a lot_type
ReportsLotType ==
    IF fn_out[1].function = "analyze_corner_lot"
    THEN fn_out[1].status = 200
    ELSE fn_out[1].method = "development_conditions_analysis"

\* C30: the lot_type that analyze_corner_lot and analyze_development_conditions
\* report is 'standard' for every geometry, parcels that
\* detect_corner_lot_enhanced calls 'corner' included; the classifier's
\* outcome shows only in the detected_type field of analyze_corner_lot and
\* changes neither lot_type nor the corner-lot advantages and constraints.
C30_LotTypeAlwaysStandard ==
    fn_out # <<>> =>
       /\ fn_out[1].lot_type = (IF ReportsLotType THEN <<"standard">> ELSE None)
       /\ fn_out[1].function = "analyze_corner_lot" =>
             fn_out[1].detected_type =
                 (IF parcel_edges_of(fn_in.geometry) = <<>> THEN None
                  ELSE <<detected_lot_type(parcel_edges_of(fn_in.geometry))>>)
       /\ fn_out[1].function = "analyze_development_conditions" =>
             /\ ~fn_out[1].corner_lot_advantages
             /\ \A i \in 1..Len(fn_out[1].development_constraints) :
                   fn_out[1].development_constraints[i] # corner_lot_constraint

\* analyze_development_conditions has answered for a parcel that the
\* classifier calls a corner lot
C30_Witness ==
    /\ fn_out # <<>>
    /\ fn_out[1].function = "analyze_development_conditions"
    /\ DetectedCorner
    /\ fn_out[1].lot_type = <<"standard">>

\* analyze_corner_lot shows the detection next to the standard lot_type
C30_DetectionShownByAnalyzeCornerLot ==
    /\ fn_out # <<>>
    /\ fn_out[1].function = "analyze_corner_lot"
    /\ fn_out[1].detected_type = <<"corner">>
    /\ fn_out[1].lot_type = <<"standard">>

====
